---------------------------- MODULE Spec2Model ----------------------------
(***************************************************************************)
(* GPS-Calc: the coordinate parser (coordinate-parser.js), the coordinate  *)
(* converter (coordinate-converter.js), the paste/calculate handlers of    *)
(* the application (script.js), the distance calculator                    *)
(* (distance-calculator.js), the formatters of the result views and the    *)
(* storage manager (storage-manager.js).                                   *)
(*                                                                         *)
(* Text is a sequence of characters, a character a one-symbol string       *)
(* ("deg" is the degree sign, "prime" and "dprime" the typographic minute  *)
(* and second marks, "nl", "cr" and "tab" the control characters).         *)
(* Numbers are exact rationals; NaN, the infinities, null and undefined    *)
(* are values of their own, and a double so large that adding or           *)
(* subtracting 360 rounds back to itself is the value Huge.                *)
(***************************************************************************)
EXTENDS Integers, Sequences, FiniteSets, TLC

VARIABLES
    origin,       \* parser: how the caller built `input` (its tokens, its components)
    input,        \* parser: the value handed to the parser's methods
    parsed,       \* parser: what parseCoordinate(input) returned
    withElev,     \* parser: what parseCoordinateWithElevation(input) returned
    batch,        \* parser: what parseMultipleCoordinates(input) returned
    format,       \* parser: what detectFormat(input) returned
    cvValue,      \* converter: the decimal value under conversion
    cvCardinal,   \* converter: includeCardinal
    cvDms,        \* converter: what decimalToDMS(cvValue, cvCardinal) returned
    cvBack,       \* converter: what dmsToDecimal returned on the fields of cvDms
    cvPair,       \* converter: the arguments (lat, lon) of convertToDMS
    cvText,       \* converter: what convertToDMS returned
    vnArgs,       \* converter: the arguments of validateAndNormalize
    vnResult,     \* converter: what validateAndNormalize returned
    wrapPc,       \* converter: where a running validateAndNormalize call stands
    wrapLon,      \* converter: normalizedLon of the running call
    pasteText,    \* app: the value of the #coordinates-paste textarea
    coordinates,  \* app: this.coordinates
    rows,         \* app: the .coordinate-row elements of #coordinates-table
    matrixArgs,   \* app: the list handed to calculateDistanceMatrix
    message,      \* app: the last showError / showSuccess
    pairArgs,     \* engine: the arguments (lat1, lon1, elev1, lat2, lon2, elev2) of a call
    pair2D,       \* engine: what calculate2DDistance returned on pairArgs
    pair3D,       \* engine: what calculate3DDistance returned on pairArgs
    dcCoordinates, \* engine: the list handed to calculateDistanceMatrix
    dcInclude,    \* engine: the arguments (include2D, include3D) of that call
    dcResult,     \* engine: what calculateDistanceMatrix returned
    fmtArgs,      \* display: the arguments (kmValue, unitSystem) of the formatters
    fmtResult,    \* display: what the app's formatDistanceWithDynamicUnits returned
    fmtReport,    \* display: what the report's formatDistanceWithUnits returned
    offsets,      \* display: the arguments (horizontal, vertical) of the assessments, in metres
    assessment,   \* display: what the app's getDistanceAssessment returned
    conclusion,   \* display: what the app's getConclusionText returned
    reportAssessment, \* display: what the report's getDistanceAssessment returned
    now,          \* storage: Date.now(), in milliseconds since the page was opened
    store,        \* storage: the array kept in localStorage under gps_calculations
    server,       \* storage: the calculations the sharing server holds
    saved,        \* storage: the last saveCalculation call and what it returned
    fetched       \* storage: the last getSharedCalculation call and what it returned

parserVars == <<origin, input, parsed, withElev, batch, format>>
converterVars == <<cvValue, cvCardinal, cvDms, cvBack, cvPair, cvText, vnArgs, vnResult>>
wrapVars == <<wrapPc, wrapLon>>
appVars == <<pasteText, coordinates, rows, matrixArgs, message>>
engineVars == <<pairArgs, pair2D, pair3D, dcCoordinates, dcInclude, dcResult>>
displayVars == <<fmtArgs, fmtResult, fmtReport, offsets, assessment, conclusion, reportAssessment>>
storageVars == <<now, store, server, saved, fetched>>
vars == <<origin, input, parsed, withElev, batch, format,
          cvValue, cvCardinal, cvDms, cvBack, cvPair, cvText, vnArgs, vnResult,
          wrapPc, wrapLon,
          pasteText, coordinates, rows, matrixArgs, message,
          pairArgs, pair2D, pair3D, dcCoordinates, dcInclude, dcResult,
          fmtArgs, fmtResult, fmtReport, offsets, assessment, conclusion, reportAssessment,
          now, store, server, saved, fetched>>

----------------------------------------------------------------------------
(* Characters and strings *)

Digits == {"0", "1", "2", "3", "4", "5", "6", "7", "8", "9"}

\* \s of a JavaScript regular expression, and what String.prototype.trim removes
WhiteSpace == {" ", "tab", "nl", "cr"}

DigitVal(c) ==
    CASE c = "0" -> 0 [] c = "1" -> 1 [] c = "2" -> 2 [] c = "3" -> 3
      [] c = "4" -> 4 [] c = "5" -> 5 [] c = "6" -> 6 [] c = "7" -> 7
      [] c = "8" -> 8 [] c = "9" -> 9

\* s.slice(a - 1, b): the characters a..b of s
Slice(s, a, b) == IF a > b THEN <<>> ELSE SubSeq(s, a, b)

SetMin(S) == CHOOSE x \in S : \A y \in S : x <= y
SetMax(S) == CHOOSE x \in S : \A y \in S : x >= y

\* String.prototype.trim
Trim(s) ==
    LET keep == {i \in 1..Len(s) : s[i] \notin WhiteSpace}
    IN  IF keep = {} THEN <<>> ELSE SubSeq(s, SetMin(keep), SetMax(keep))

\* the string without its leading white space
TrimLeft(s) ==
    LET keep == {i \in 1..Len(s) : s[i] \notin WhiteSpace}
    IN  IF keep = {} THEN <<>> ELSE SubSeq(s, SetMin(keep), Len(s))

\* Array.prototype.join(' ')
RECURSIVE JoinSpace(_)
JoinSpace(parts) ==
    IF parts = <<>> THEN <<>>
    ELSE IF Len(parts) = 1 THEN parts[1]
    ELSE parts[1] \o <<" ">> \o JoinSpace(Tail(parts))

\* the k-th smallest element of a set of positions
Nth(P, k) == CHOOSE p \in P : Cardinality({q \in P : q <= p}) = k

\* String.prototype.split(c) for a one-character separator (split('\n')): the
\* pieces between the separators, empty pieces included
SplitOn(s, seps) ==
    LET P == {i \in 1..Len(s) : s[i] \in seps}
        n == Cardinality(P)
        from(k) == IF k = 1 THEN 1 ELSE Nth(P, k - 1) + 1
        to(k) == IF k = n + 1 THEN Len(s) ELSE Nth(P, k) - 1
    IN  [k \in 1..(n + 1) |-> Slice(s, from(k), to(k))]

\* String.prototype.split(/[...]+/) for runs of the characters `seps`: a run is one
\* separator, so only a leading and a trailing run leave an empty piece
SplitRuns(s, seps) ==
    LET starts == {i \in 1..Len(s) : s[i] \notin seps /\ (i = 1 \/ s[i - 1] \in seps)}
        ends == {i \in 1..Len(s) : s[i] \notin seps /\ (i = Len(s) \/ s[i + 1] \in seps)}
        n == Cardinality(starts)
        tokens == [k \in 1..n |-> SubSeq(s, Nth(starts, k), Nth(ends, k))]
        lead == IF s # <<>> /\ s[1] \in seps THEN << <<>> >> ELSE <<>>
        trail == IF s # <<>> /\ s[Len(s)] \in seps THEN << <<>> >> ELSE <<>>
    IN  IF s = <<>> THEN << <<>> >> ELSE lead \o tokens \o trail

----------------------------------------------------------------------------
(* Numbers *)

RECURSIVE Gcd(_, _)
Gcd(a, b) == IF b = 0 THEN a ELSE Gcd(b, a % b)

Abs(x) == IF x < 0 THEN -x ELSE x

\* the rational n/d in lowest terms, d > 0
Rat(n, d) ==
    LET g == Gcd(Abs(n), Abs(d))
        sg == IF d < 0 THEN -1 ELSE 1
    IN  [k |-> "num", n |-> sg * (n \div g), d |-> sg * (d \div g)]

Int2Num(i) == [k |-> "num", n |-> i, d |-> 1]
NaN == [k |-> "nan", n |-> 0, d |-> 1]
Infinity(sg) == [k |-> "inf", n |-> sg, d |-> 1]
\* a finite double of magnitude >= 1e19: its neighbours are 2048 apart, so x + 360
\* and x - 360 round to x
Huge(sg) == [k |-> "huge", n |-> sg, d |-> 1]
JsNull == [k |-> "null", n |-> 0, d |-> 1]
JsUndefined == [k |-> "undefined", n |-> 0, d |-> 1]

IsNum(x) == x.k = "num"
\* isNaN(x) / isFinite(x) of a number (null coerces to 0, undefined to NaN)
JsIsNaN(x) == x.k \in {"nan", "undefined"}
JsIsFinite(x) == x.k \in {"num", "huge", "null"}

Floor(x) == x.n \div x.d

\* exact comparison of two rationals: whole parts first, then the fractions
RatLess(x, y) ==
    LET fx == Floor(x)
        fy == Floor(y)
    IN  IF fx # fy THEN fx < fy
        ELSE (x.n - fx * x.d) * y.d < (y.n - fy * y.d) * x.d

\* the sign class of a value: -2 -inf, -1 negative huge ... 2 +inf; 0 a rational
Rank(x) ==
    CASE x.k = "inf" -> 3 * x.n
      [] x.k = "huge" -> 2 * x.n
      [] OTHER -> 0

\* ToNumber of the operand of a relational operator
ToNum(x) ==
    CASE x.k = "null" -> Int2Num(0)
      [] x.k = "undefined" -> NaN
      [] OTHER -> x

\* x < y for numbers
NumLess(x, y) ==
    IF x.k = "nan" \/ y.k = "nan" THEN FALSE
    ELSE IF Rank(x) # Rank(y) THEN Rank(x) < Rank(y)
    ELSE IF x.k = "num" THEN RatLess(x, y)
    ELSE FALSE

\* x <= y for numbers
NumLessEq(x, y) == x.k # "nan" /\ y.k # "nan" /\ ~NumLess(y, x)

\* the relational operators of JavaScript (false when either side is NaN)
JsLess(a, b) == NumLess(ToNum(a), ToNum(b))
JsGreater(a, b) == NumLess(ToNum(b), ToNum(a))
JsLessEq(a, b) == NumLessEq(ToNum(a), ToNum(b))
JsGreaterEq(a, b) == NumLessEq(ToNum(b), ToNum(a))

Lcm(a, b) == (a \div Gcd(a, b)) * b

RatAdd(x, y) ==
    LET l == Lcm(x.d, y.d)
    IN  Rat(x.n * (l \div x.d) + y.n * (l \div y.d), l)

RatNeg(x) == [k |-> "num", n |-> -x.n, d |-> x.d]
RatSub(x, y) == RatAdd(x, RatNeg(y))
RatMul(x, y) ==
    LET g1 == Gcd(Abs(x.n), y.d)
        g2 == Gcd(Abs(y.n), x.d)
    IN  Rat((x.n \div g1) * (y.n \div g2), (x.d \div g2) * (y.d \div g1))
RatDivInt(x, i) == Rat(x.n, x.d * i)
RatAbs(x) == [k |-> "num", n |-> Abs(x.n), d |-> x.d]

\* -x
JsNeg(x) ==
    CASE x.k = "num" -> RatNeg(x)
      [] x.k \in {"inf", "huge"} -> [x EXCEPT !.n = -x.n]
      [] x.k = "null" -> Int2Num(0)
      [] OTHER -> NaN

\* x + y for a rational y (x - 360 is JsAddRat(x, -360))
JsAddRat(x, y) ==
    CASE x.k = "num" -> RatAdd(x, y)
      [] x.k \in {"inf", "huge"} -> x
      [] x.k = "null" -> y
      [] OTHER -> NaN

RECURSIVE Pow10(_)
Pow10(e) == IF e = 0 THEN 1 ELSE 10 * Pow10(e - 1)

\* the number of characters of s, from position i on, that are digits
DigitRun(s, i) ==
    SetMin({j \in i..(Len(s) + 1) : j > Len(s) \/ s[j] \notin Digits} \cup {Len(s) + 1}) - i

\* the number of characters of s, from position i on, that are in `set`
ClassRun(s, i, set) ==
    SetMin({j \in i..(Len(s) + 1) : j > Len(s) \/ s[j] \notin set} \cup {Len(s) + 1}) - i

\* the value of the digits s[i .. i+n-1]
RECURSIVE DigitsVal(_, _, _)
DigitsVal(s, i, n) ==
    IF n = 0 THEN 0 ELSE DigitsVal(s, i, n - 1) * 10 + DigitVal(s[i + n - 1])

InfinityWord == <<"I", "n", "f", "i", "n", "i", "t", "y">>

\* the value of the digits that begin at position i of s (0 when there is none)
DigitsAt(s, i) == DigitsVal(s, i, DigitRun(s, i))

\* the ExponentPart that begins at position q of s: its value, 0 when s has none
Exponent(s, q) ==
    IF q > Len(s) \/ s[q] \notin {"e", "E"} THEN 0
    ELSE IF q + 1 <= Len(s) /\ s[q + 1] = "-" THEN -DigitsAt(s, q + 2)
    ELSE IF q + 1 <= Len(s) /\ s[q + 1] = "+" THEN DigitsAt(s, q + 2)
    ELSE DigitsAt(s, q + 1)

\* x * 10^ex
Scale(x, ex) ==
    IF ex < 0 THEN RatMul(x, Rat(1, Pow10(-ex))) ELSE RatMul(x, Int2Num(Pow10(ex)))

\* sg * x
Signed(sg, x) == IF sg < 0 THEN RatNeg(x) ELSE x

\* the literal with ni integer digits from position p of s and nf fraction digits
\* after its "." (dot: s has the "."); a literal of 20 or more integer digits is Huge
Literal(s, sg, p, ni, dot, nf) ==
    IF ni = 0 /\ nf = 0 THEN NaN
    ELSE IF ni >= 20 THEN Huge(sg)
    ELSE Signed(sg, Scale(RatAdd(Int2Num(DigitsVal(s, p, ni)),
                                Rat(DigitsVal(s, p + ni + 1, nf), Pow10(nf))),
                          Exponent(s, IF dot THEN p + ni + 1 + nf ELSE p + ni)))

\* the digits after the integer digits
Fraction(s, sg, p, ni, dot) ==
    Literal(s, sg, p, ni, dot, IF dot THEN DigitRun(s, p + ni + 1) ELSE 0)

\* the literal with ni integer digits from position p of s
Mantissa(s, sg, p, ni) == Fraction(s, sg, p, ni, p + ni <= Len(s) /\ s[p + ni] = ".")

\* the unsigned literal that begins at position p of s
Unsigned(s, sg, p) ==
    IF Len(s) >= p + 7 /\ SubSeq(s, p, p + 7) = InfinityWord THEN Infinity(sg)
    ELSE Mantissa(s, sg, p, DigitRun(s, p))

\* the literal at the beginning of s
StrDecimalLiteral(s) ==
    Unsigned(s, IF s # <<>> /\ s[1] = "-" THEN -1 ELSE 1,
                IF s # <<>> /\ s[1] \in {"-", "+"} THEN 2 ELSE 1)

\* parseFloat(string): leading white space is skipped, then the longest prefix that
\* is a StrDecimalLiteral is converted; NaN when there is none
ParseFloat(str) == StrDecimalLiteral(TrimLeft(str))

----------------------------------------------------------------------------
(* Regular expressions with the priorities of JavaScript's backtracking matcher. *)
(* A pattern is a sequence of items; cap says that the item is a capture group. *)

Item(t, set, min, signed, cap) ==
    [t |-> t, set |-> set, min |-> min, signed |-> signed, cap |-> cap]

One(set) == Item("one", set, 1, FALSE, FALSE)          \* [set]
CapOne(set) == Item("one", set, 1, FALSE, TRUE)        \* ([set])
CapOpt(set) == Item("opt", set, 0, FALSE, TRUE)        \* ([set]?)
OptOne(set) == Item("opt", set, 0, FALSE, FALSE)       \* [set]?
Run(set, min) == Item("run", set, min, FALSE, FALSE)   \* [set]* (min 0), [set]+ (min 1)
CapInteger(signed) == Item("int", {}, 1, signed, TRUE) \* (-?\d+) or (\d+)
CapDecimal(signed) == Item("dec", {}, 1, signed, TRUE) \* (-?\d+(?:\.\d+)?) or (\d+(?:\.\d+)?)
Bol == Item("bol", {}, 0, FALSE, FALSE)                \* ^
Eol == Item("eol", {}, 0, FALSE, FALSE)                \* $

\* i, i-1, ..., j as a sequence (empty when i < j)
Down(i, j) == [k \in 1..(i - j + 1) |-> i - k + 1]

\* The positions at which a match of `item` that begins at position i of s may end
\* (the position after its last character), in the order the matcher tries them:
\* every quantifier is greedy, so the longest comes first.
Ends(item, s, i) ==
    LET here(set) == i <= Len(s) /\ s[i] \in set
    IN  CASE item.t = "one" -> IF here(item.set) THEN <<i + 1>> ELSE <<>>
          [] item.t = "opt" -> IF here(item.set) THEN <<i + 1, i>> ELSE <<i>>
          [] item.t = "run" -> Down(i + ClassRun(s, i, item.set), i + item.min)
          [] item.t = "bol" -> IF i = 1 THEN <<i>> ELSE <<>>
          [] item.t = "eol" -> IF i = Len(s) + 1 THEN <<i>> ELSE <<>>
          [] item.t \in {"int", "dec"} ->
               \* -? : with the sign first; without it the digits must begin at i,
               \* which a "-" there rules out
               LET p == IF item.signed /\ here({"-"}) THEN i + 1 ELSE i
                   nd == DigitRun(s, p)
                   dot == item.t = "dec" /\ nd > 0 /\ p + nd <= Len(s) /\ s[p + nd] = "."
                   nf == IF dot THEN DigitRun(s, p + nd + 1) ELSE 0
               IN  \* \d+ longest first; (?:\.\d+)? only after all the digits, with
                   \* its own \d+ longest first, then without it
                   Down(p + nd + nf + 1, p + nd + 2) \o Down(p + nd, p + 1)

NoMatch == [ok |-> FALSE, pos |-> 0, caps |-> <<>>]

\* Whether the rest of a pattern can match depends only on the position it begins
\* at, so the matcher's first success is found in three passes over the items:
\* forwards, the positions at which each item may begin; backwards, those of them
\* from which the item and the rest of the pattern can match; forwards again, for
\* each item the first of its ends, in the matcher's order, from which the rest can.

Range(q) == {q[j] : j \in 1..Len(q)}

\* the positions at which the matches of `item` that begin at a position of `from` end
After(item, s, from) == UNION {Range(Ends(item, s, i)) : i \in from}

\* begins[k] holds the positions at which item k of `re` may begin, begins[Len(re) + 1]
\* those at which a match may end; the pass stops when no position is left
RECURSIVE Forward(_, _, _)
Forward(re, s, begins) ==
    IF Len(begins) > Len(re) \/ begins[Len(begins)] = {} THEN begins
    ELSE Forward(re, s, Append(begins, After(re[Len(begins)], s, begins[Len(begins)])))

\* one of `ends` is a position in `after`
Reaches(ends, after) == \E j \in 1..Len(ends) : ends[j] \in after

\* the positions of `from` at which `item` can begin and end at a position in `after`
Before(item, s, from, after) == {i \in from : Reaches(Ends(item, s, i), after)}

\* table[1] holds the positions from which the items k+1, k+2, ... of `re` can
\* match, table[2] those for k+2, ...
RECURSIVE Viable(_, _, _, _, _)
Viable(re, k, s, begins, table) ==
    IF k = 0 \/ Head(table) = {} THEN table
    ELSE Viable(re, k - 1, s, begins,
                <<Before(re[k], s, begins[k], Head(table))>> \o table)

\* the first of `ends` that is a position in `after`
FirstIn(ends, after) == ends[SetMin({j \in 1..Len(ends) : ends[j] \in after})]

\* bounds[1] is where the match begins and bounds[k + 1] where item k ends
RECURSIVE Walk(_, _, _, _)
Walk(re, table, s, bounds) ==
    IF Len(bounds) > Len(re) THEN bounds
    ELSE Walk(re, table, s,
              Append(bounds, FirstIn(Ends(re[Len(bounds)], s, bounds[Len(bounds)]),
                                     table[Len(bounds) + 1])))

\* the text of the n-th capture group
Group(re, s, bounds, n) ==
    Slice(s, bounds[Nth({k \in 1..Len(re) : re[k].cap}, n)],
             bounds[Nth({k \in 1..Len(re) : re[k].cap}, n) + 1] - 1)

Matched(re, s, bounds) ==
    [ok |-> TRUE, pos |-> bounds[Len(bounds)],
     caps |-> [n \in 1..Cardinality({k \in 1..Len(re) : re[k].cap}) |-> Group(re, s, bounds, n)]]

\* the match that begins at the leftmost position of `table` that has one
Leftmost(re, s, table) ==
    IF Head(table) = {} THEN NoMatch
    ELSE Matched(re, s, Walk(re, table, s, <<SetMin(Head(table))>>))

\* the match, when `begins` says that there is one
Complete(re, s, begins) ==
    IF Len(begins) <= Len(re) \/ begins[Len(begins)] = {} THEN NoMatch
    ELSE Leftmost(re, s, Viable(re, Len(re), s, begins, <<begins[Len(begins)]>>))

\* RegExp.prototype.exec without the g flag: the match at the leftmost position
\* that has one
Exec(re, s) == Complete(re, s, Forward(re, s, <<1..(Len(s) + 1)>>))

\* RegExp.prototype.test
Test(re, s) == Exec(re, s).ok

Ws0 == Run(WhiteSpace, 0)       \* \s*
Ws1 == Run(WhiteSpace, 1)       \* \s+
DegMark == One({"deg"})
MinMark == One({"'", "prime"})  \* ['′]
SecMark == One({"\"", "dprime"}) \* ["″]
\* the i flag: a letter of a class matches in either case
LettersNS == {"N", "S", "n", "s"}
LettersEW == {"E", "W", "e", "w"}
OptComma == OptOne({","})

\* this.patterns.dmsWithSymbols
dmsWithSymbols ==
    << CapDecimal(TRUE), DegMark, Ws0, CapDecimal(FALSE), MinMark, Ws0,
       CapDecimal(FALSE), SecMark, Ws0, CapOpt(LettersNS), Ws0, OptComma, Ws0,
       CapDecimal(TRUE), DegMark, Ws0, CapDecimal(FALSE), MinMark, Ws0,
       CapDecimal(FALSE), SecMark, Ws0, CapOpt(LettersEW) >>

\* this.patterns.dmsWithCardinal
dmsWithCardinal ==
    << CapOne(LettersNS), CapDecimal(FALSE), DegMark, Ws0, CapDecimal(FALSE), MinMark, Ws0,
       CapDecimal(FALSE), SecMark, Ws0, OptComma, Ws0,
       CapOne(LettersEW), CapDecimal(FALSE), DegMark, Ws0, CapDecimal(FALSE), MinMark, Ws0,
       CapDecimal(FALSE), SecMark >>

\* this.patterns.decimalDegrees
decimalDegrees == << Bol, CapDecimal(TRUE), Ws1, CapDecimal(TRUE), Eol >>

\* this.patterns.decimalWithCardinal
decimalWithCardinal ==
    << CapOne(LettersNS), CapDecimal(FALSE), Ws0, OptComma, Ws0,
       CapOne(LettersEW), CapDecimal(FALSE) >>

\* this.patterns.dmsSpaceSeparated
dmsSpaceSeparated ==
    << Bol, CapInteger(TRUE), Ws1, CapInteger(FALSE), Ws1, CapDecimal(FALSE), Ws1,
       CapInteger(TRUE), Ws1, CapInteger(FALSE), Ws1, CapDecimal(FALSE), Eol >>

\* String.prototype.toUpperCase on a captured cardinal letter
ToUpperCase(s) ==
    [i \in 1..Len(s) |->
        CASE s[i] = "n" -> "N" [] s[i] = "s" -> "S"
          [] s[i] = "e" -> "E" [] s[i] = "w" -> "W" [] OTHER -> s[i]]

----------------------------------------------------------------------------
(* JavaScript values handed to the parser *)

Str(s) == [ty |-> "string", s |-> s]
NonString(ty) == [ty |-> ty, s |-> <<>>]

\* !input
Falsy(v) == v.ty \in {"null", "undefined", "zero", "false"} \/ (v.ty = "string" /\ v.s = <<>>)

\* the results of the parser
LatLon(lat, lon) == [tag |-> "coord", lat |-> lat, lon |-> lon, elevation |-> JsUndefined]
Coordinate(lat, lon, elevation) ==
    [tag |-> "coord", lat |-> lat, lon |-> lon, elevation |-> elevation]
Null == [tag |-> "null", lat |-> JsNull, lon |-> JsNull, elevation |-> JsNull]
\* a TypeError leaving the method (input.trim() of a value that has no trim)
TypeError == [tag |-> "TypeError", lat |-> JsNull, lon |-> JsNull, elevation |-> JsNull]
\* the method has not been called
Unset == [tag |-> "unset", lat |-> JsNull, lon |-> JsNull, elevation |-> JsNull]

----------------------------------------------------------------------------
(* CoordinateParser *)

\* dmsToDecimal without its sign handling: degrees + minutes/60 + seconds/3600
dmsToDecimalPlainSum(degrees, minutes, seconds) ==
    IF degrees.k = "huge" THEN degrees
    ELSE RatAdd(RatAdd(degrees, RatDivInt(minutes, 60)), RatDivInt(seconds, 3600))

\* CoordinateParser.dmsToDecimal(degrees, minutes, seconds); minutes and seconds are
\* rationals, degrees a rational or Huge
dmsToDecimal(degrees, minutes, seconds) ==
    IF degrees.k = "huge" THEN degrees
    ELSE Signed(IF JsLess(degrees, Int2Num(0)) THEN -1 ELSE 1,
                RatAdd(RatAdd(RatAbs(degrees), RatDivInt(minutes, 60)),
                       RatDivInt(seconds, 3600)))

\* dir === letter ? -value : value
Against(dir, letter, value) == IF dir = <<letter>> THEN JsNeg(value) ELSE value

\* The five extractors take the match and num, the parseFloat of each of its groups:
\* num[k] is parseFloat(match[k]).
parseDMSSpaceSeparated(match, num) ==
    LatLon(dmsToDecimal(num[1], num[2], num[3]), dmsToDecimal(num[4], num[5], num[6]))

parseDMSWithCardinal(match, num) ==
    LatLon(Against(ToUpperCase(match[1]), "S", dmsToDecimal(num[2], num[3], num[4])),
           Against(ToUpperCase(match[5]), "W", dmsToDecimal(num[6], num[7], num[8])))

\* latDir and lonDir are match[4]?.toUpperCase() and match[8]?.toUpperCase()
parseDMSWithSymbols(match, num) ==
    LatLon(Against(ToUpperCase(match[4]), "S", dmsToDecimal(num[1], num[2], num[3])),
           Against(ToUpperCase(match[8]), "W", dmsToDecimal(num[5], num[6], num[7])))

parseDecimalWithCardinal(match, num) ==
    LatLon(Against(ToUpperCase(match[1]), "S", num[2]),
           Against(ToUpperCase(match[3]), "W", num[4]))

parseDecimalDegrees(match, num) == LatLon(num[1], num[2])

\* the guard without its typeof test: !input
NotAStringOnlyFalsy(v) == Falsy(v)

\* the guard of parseCoordinate, parseMultipleCoordinates and detectFormat:
\* !input || typeof input !== 'string'
NotAString(v) == Falsy(v) \/ v.ty # "string"

\* the notations with the decimal ones tried first
TrialsDecimalFirst ==
    <<"decimalDegrees", "decimalWithCardinal", "dmsWithSymbols",
      "dmsWithCardinal", "dmsSpaceSeparated">>

\* the notations in the order parseCoordinate tries them
Trials ==
    <<"dmsSpaceSeparated", "dmsWithCardinal", "dmsWithSymbols",
      "decimalWithCardinal", "decimalDegrees">>

\* this.patterns[name]
Pattern(name) ==
    CASE name = "dmsSpaceSeparated" -> dmsSpaceSeparated
      [] name = "dmsWithCardinal" -> dmsWithCardinal
      [] name = "dmsWithSymbols" -> dmsWithSymbols
      [] name = "decimalWithCardinal" -> decimalWithCardinal
      [] name = "decimalDegrees" -> decimalDegrees

\* the extractor parseCoordinate calls on a match of this.patterns[name]
Extract(name, match, num) ==
    CASE name = "dmsSpaceSeparated" -> parseDMSSpaceSeparated(match, num)
      [] name = "dmsWithCardinal" -> parseDMSWithCardinal(match, num)
      [] name = "dmsWithSymbols" -> parseDMSWithSymbols(match, num)
      [] name = "decimalWithCardinal" -> parseDecimalWithCardinal(match, num)
      [] name = "decimalDegrees" -> parseDecimalDegrees(match, num)

\* parseFloat of each group of a match
Floats(match) == [k \in 1..Len(match) |-> ParseFloat(match[k])]

\* the trials k, k+1, ... of parseCoordinate on trimmedInput: the first pattern
\* that matches decides, null when none does
RECURSIVE TryFrom(_, _, _)
Trial(trials, k, trimmedInput, m) ==
    IF m.ok THEN Extract(trials[k], m.caps, Floats(m.caps))
    ELSE TryFrom(trials, k + 1, trimmedInput)

TryFrom(trials, k, trimmedInput) ==
    IF k > Len(trials) THEN Null
    ELSE Trial(trials, k, trimmedInput, Exec(Pattern(trials[k]), trimmedInput))

\* the body of parseCoordinate after its guard: input.trim() and the five trials
parseTrimmed(v) ==
    IF v.ty # "string" THEN TypeError ELSE TryFrom(Trials, 1, Trim(v.s))

parseCoordinate(v) == IF NotAString(v) THEN Null ELSE parseTrimmed(v)

\* the category of the trimmed input: 'dms' when one of the three DMS patterns tests
\* true, else 'decimal' when one of the two decimal patterns does
Category(trimmedInput, dmsPatterns) ==
    IF \E k \in 1..Len(dmsPatterns) : Test(Pattern(dmsPatterns[k]), trimmedInput) THEN "dms"
    ELSE IF \/ Test(decimalWithCardinal, trimmedInput)
            \/ Test(decimalDegrees, trimmedInput) THEN "decimal"
    ELSE "unknown"

\* detectFormat without its test of the space-separated DMS pattern
detectFormatMarkedDmsOnly(v) ==
    IF NotAString(v) THEN "unknown"
    ELSE Category(Trim(v.s), <<"dmsWithCardinal", "dmsWithSymbols">>)

\* CoordinateParser.detectFormat(input)
detectFormat(v) ==
    IF NotAString(v) THEN "unknown"
    ELSE Category(Trim(v.s), <<"dmsWithCardinal", "dmsWithSymbols", "dmsSpaceSeparated">>)

\* the delimiters of parseCoordinateWithElevation: /[\s,;|\t]+/
Delimiters == WhiteSpace \cup {",", ";", "|"}

\* input.split(/[\s,;|\t]+/).filter(part => part.trim())
Parts(s) == SelectSeq(SplitRuns(s, Delimiters), LAMBDA part : Trim(part) # <<>>)

\* the window sizes with the pair tried first
coordinateCountsPairFirst == <<2, 6>>

\* const coordinateCounts = [6, 2]
coordinateCounts == <<6, 2>>

\* the parts i .. i+count-1 are the coordinate, the part e (0: none) the elevation
Window(i, count, e) == [i |-> i, count |-> count, e |-> e]

\* the fallback: the first two parts and the third
Fallback == Window(1, 2, 3)

\* this.parseCoordinate(parts.slice(i, i + count).join(' ')), i counted from 1
CoordinateOf(parts, i, count) ==
    parseCoordinate(Str(JoinSpace(SubSeq(parts, i, i + count - 1))))

\* The loop over i for one count, from position i on: the first position whose
\* window parseCoordinate accepts, 0 when there is none
RECURSIVE FindAt(_, _, _)
FindAt(parts, count, i) ==
    IF i + count - 1 > Len(parts) THEN 0
    ELSE IF CoordinateOf(parts, i, count).tag = "coord" THEN i
    ELSE FindAt(parts, count, i + 1)

\* The loop over coordinateCounts, from the c-th count on: the first window that is
\* accepted, the elevation being the part after it when there is one; the fallback
\* when no window is accepted.
RECURSIVE FindWindow(_, _)
Found(parts, c, i) ==
    IF i = 0 THEN FindWindow(parts, c + 1)
    ELSE Window(i, coordinateCounts[c],
                IF i + coordinateCounts[c] <= Len(parts) THEN i + coordinateCounts[c] ELSE 0)

FindWindow(parts, c) ==
    IF c > Len(coordinateCounts) THEN Fallback
    ELSE Found(parts, c, FindAt(parts, coordinateCounts[c], 1))

\* coordinateStr and elevation as the three branches on parts.length leave them
ChosenWindow(parts) ==
    IF Len(parts) = 2 THEN Window(1, 2, 0)
    ELSE IF Len(parts) = 3 THEN Window(1, 2, 3)
    ELSE FindWindow(parts, 1)

\* parseCoordinateWithElevation without its test of the coordinate: reading
\* coordinate.lat of null throws
WithElevationUnchecked(coordinate, elevation) ==
    IF coordinate.tag # "coord" THEN TypeError
    ELSE Coordinate(coordinate.lat, coordinate.lon,
                    IF elevation # JsUndefined THEN elevation ELSE JsNull)

\* the object parseCoordinateWithElevation returns
WithElevation(coordinate, elevation) ==
    IF coordinate.tag # "coord" THEN Null
    ELSE Coordinate(coordinate.lat, coordinate.lon,
                    IF elevation # JsUndefined THEN elevation ELSE JsNull)

\* the end of parseCoordinateWithElevation: parseCoordinate(coordinateStr) and the
\* elevation, which stays undefined when no part holds it
ParseWindow(parts, w) ==
    IF w.e = 0 THEN WithElevation(CoordinateOf(parts, w.i, w.count), JsUndefined)
    ELSE WithElevation(CoordinateOf(parts, w.i, w.count), ParseFloat(parts[w.e]))

\* parseCoordinateWithElevation on the parts of its input
ParseParts(parts) ==
    IF Len(parts) < 2 THEN Null ELSE ParseWindow(parts, ChosenWindow(parts))

\* parseCoordinateWithElevation(input) for a string
parseCoordinateWithElevation(s) == ParseParts(Parts(s))

\* coordinates.push(coordWithElevation) when it is not null
Pushed(coordWithElevation, rest) ==
    IF coordWithElevation.tag # "null" THEN <<coordWithElevation>> \o rest ELSE rest

\* the loop of parseMultipleCoordinates over the lines
RECURSIVE ParseLines(_)
ParseLines(lines) ==
    IF lines = <<>> THEN <<>>
    ELSE IF Trim(Head(lines)) = <<>> THEN ParseLines(Tail(lines))
    ELSE Pushed(parseCoordinateWithElevation(Trim(Head(lines))), ParseLines(Tail(lines)))

\* input.split('\n').filter(line => line.trim())
Lines(s) == SelectSeq(SplitOn(s, {"nl"}), LAMBDA line : Trim(line) # <<>>)

Array(items) == [tag |-> "array", items |-> items]
\* a TypeError leaving parseMultipleCoordinates (input.split of a value without split)
ArrayTypeError == [tag |-> "TypeError", items |-> <<>>]
ArrayUnset == [tag |-> "unset", items |-> <<>>]

\* the body of parseMultipleCoordinates after its guard
parseLinesOf(v) ==
    IF v.ty # "string" THEN ArrayTypeError ELSE Array(ParseLines(Lines(v.s)))

\* parseMultipleCoordinates(input)
parseMultipleCoordinates(v) == IF NotAString(v) THEN Array(<<>>) ELSE parseLinesOf(v)

----------------------------------------------------------------------------
(* The inputs of the parser: text as a user writes it *)

DigitChar(d) == CHOOSE c \in Digits : DigitVal(c) = d

\* String(n) for a natural number
RECURSIVE NumChars(_)
NumChars(n) ==
    IF n < 10 THEN <<DigitChar(n)>> ELSE NumChars(n \div 10) \o <<DigitChar(n % 10)>>

\* a number of tenths written in decimal: 155 is 15.5, 150 is 15
TenthsChars(t) ==
    NumChars(t \div 10) \o (IF t % 10 = 0 THEN <<>> ELSE <<".">> \o NumChars(t % 10))

\* One angle as written: a minus sign or none, whole degrees, whole minutes, seconds
\* in tenths, and a cardinal letter or none (<<>>).
Angle(neg, deg, min, sec10, card) ==
    [neg |-> neg, deg |-> deg, min |-> min, sec10 |-> sec10, card |-> card]

DegChars(a) == (IF a.neg THEN <<"-">> ELSE <<>>) \o NumChars(a.deg)

\* D M S
SpaceAngle(a) == DegChars(a) \o <<" ">> \o NumChars(a.min) \o <<" ">> \o TenthsChars(a.sec10)
\* D° M' S"
SymbolAngle(a) ==
    DegChars(a) \o <<"deg", " ">> \o NumChars(a.min) \o <<"'", " ">>
        \o TenthsChars(a.sec10) \o <<"\"">>

\* the text of a coordinate in one of the three DMS notations of the README
DmsText(layout, lat, lon) ==
    CASE layout = "space" -> SpaceAngle(lat) \o <<" ">> \o SpaceAngle(lon)
      [] layout = "leading" ->
           lat.card \o SymbolAngle(lat) \o <<" ">> \o lon.card \o SymbolAngle(lon)
      [] layout = "symbols" ->
           SymbolAngle(lat) \o (IF lat.card = <<>> THEN <<>> ELSE <<" ">> \o lat.card)
               \o <<",", " ">>
               \o SymbolAngle(lon) \o (IF lon.card = <<>> THEN <<>> ELSE <<" ">> \o lon.card)

LatAngles(cards) ==
    {Angle(neg, deg, 48, sec10, card) :
        neg \in BOOLEAN, deg \in {0, 41}, sec10 \in {0, 155}, card \in cards}
LonAngles(cards) ==
    {Angle(neg, deg, 50, 15, card) : neg \in BOOLEAN, deg \in {0, 112}, card \in cards}

DmsOrigin(layout, lat, lon) == [kind |-> "dms", layout |-> layout, lat |-> lat, lon |-> lon]

DmsOrigins ==
    {DmsOrigin("space", lat, lon) : lat \in LatAngles({<<>>}), lon \in LonAngles({<<>>})}
    \cup {DmsOrigin("leading", lat, lon) :
            lat \in {a \in LatAngles({<<"N">>, <<"S">>, <<"s">>}) : a.sec10 = 0},
            lon \in {a \in LonAngles({<<"E">>, <<"W">>, <<"w">>}) : a.deg = 112}}
    \cup {DmsOrigin("symbols", lat, lon) :
            lat \in {a \in LatAngles({<<>>, <<"N">>, <<"S">>}) : a.sec10 = 155},
            lon \in {a \in LonAngles({<<>>, <<"E">>, <<"W">>}) : a.deg = 112}}

\* tokens of a pasted line
Tok41 == <<"4", "1">>
TokP1 == <<"P", "1">>
TokM == <<"m">>
Dms6Num == << Tok41, <<"4", "8">>, <<"1", "5", ".", "5">>,
              <<"1", "1", "2">>, <<"5", "0">>, <<"1", ".", "5">> >>
Dms6Sym == << <<"4", "4", "deg">>, <<"2", "8", "'">>, <<"2", "4", "\"">>,
              <<"-", "7", "0", "deg">>, <<"5", "3", "prime">>, <<"1", "9", "dprime">> >>
Frac6 == << <<"1", ".", "5">>, <<"2">>, <<"3">>, <<"4">>, <<"5">>, <<"6">> >>
Dec2 == << <<"4", "4", ".", "5">>, <<"-", "7", "0", ".", "5">> >>
Card2 == << <<"N", "4", "4", ".", "5">>, <<"W", "7", "0", ".", "5">> >>
Junk2 == << <<"a">>, <<"b">> >>
Far2 == << <<"9", "5">>, <<"2", "0", "0">> >>

CoordinateTokens == {Dms6Num, Dms6Sym, Frac6, Dec2, Card2, Junk2, Far2}

ElevationTokens ==
    { <<"1", "0", "0">>, <<"1", "1", "0", "0", "0">>, <<"1", "1", "0", "0", "1">>,
      <<"-", "1", "2", "0", "0", "0">>, <<"a", "b", "c">>, InfinityWord,
      <<"1", "e", "5">>, <<"0">> }

Suffixes ==
    {<<>>} \cup {<<e>> : e \in ElevationTokens}
           \cup {<< <<"1", "0", "0">>, TokM >>, << <<"7">>, <<"8">> >>}

LineDelimiters == {<<" ">>, <<",", " ">>}

RECURSIVE JoinWith(_, _)
JoinWith(parts, delim) ==
    IF parts = <<>> THEN <<>>
    ELSE IF Len(parts) = 1 THEN parts[1]
    ELSE parts[1] \o delim \o JoinWith(Tail(parts), delim)

TokensOrigin(tokens, delim) == [kind |-> "tokens", tokens |-> tokens, delim |-> delim]

TokenOrigins ==
    {TokensOrigin(prefix \o coord \o suffix, delim) :
        prefix \in {<<>>, <<TokP1>>}, coord \in CoordinateTokens,
        suffix \in Suffixes, delim \in LineDelimiters}

\* text holding more than one coordinate
FragLeading == DmsText("leading", Angle(FALSE, 1, 2, 30, <<"N">>), Angle(FALSE, 4, 5, 60, <<"E">>))
FragSymbols == DmsText("symbols", Angle(FALSE, 7, 8, 90, <<"S">>), Angle(FALSE, 10, 11, 120, <<"W">>))
FragDecimal == <<"S", "1", "3", ".", "5", " ", "W", "1", "4", ".", "5">>
Fragments == {FragLeading, FragSymbols, FragDecimal}

RawOrigin(text) == [kind |-> "raw", text |-> text]
RawOrigins ==
    {RawOrigin(f) : f \in Fragments}
    \cup {RawOrigin(f \o <<" ">> \o g) : f \in Fragments, g \in Fragments}
    \cup {RawOrigin(<<>>), RawOrigin(<<" ", " ">>), RawOrigin(<<" ">> \o JoinSpace(Dec2) \o <<"tab">>)}

\* values that are not strings
ValueOrigin(ty) == [kind |-> "value", ty |-> ty]
ValueOrigins == {ValueOrigin(ty) : ty \in {"null", "undefined", "zero", "number", "false", "object"}}

\* pasted text of several lines
MaxLines == 2

PastedLines ==
    { JoinSpace(Dec2 \o << <<"1", "0", "0">> >>), JoinSpace(Dms6Num), JoinSpace(Far2),
      <<"a", " ", "b", " ", "c", " ", "d">>, <<" ", " ">>,
      JoinSpace(<< <<"0">>, <<"0">>, <<"1", "2", "0", "0", "0">> >>) }

RECURSIVE SeqsOf(_, _)
SeqsOf(S, n) ==
    IF n = 0 THEN {<<>>} ELSE {Append(q, x) : q \in SeqsOf(S, n - 1), x \in S}

TextOrigin(lines, newline) == [kind |-> "text", lines |-> lines, newline |-> newline]
TextOrigins ==
    {TextOrigin(lines, <<"nl">>) : lines \in UNION {SeqsOf(PastedLines, n) : n \in 2..MaxLines}}
    \cup {TextOrigin(lines, <<"cr", "nl">>) : lines \in SeqsOf(PastedLines, 2)}

ParserOrigins == DmsOrigins \cup TokenOrigins \cup RawOrigins \cup ValueOrigins \cup TextOrigins

\* the value the caller hands over
InputOf(o) ==
    CASE o.kind = "dms" -> Str(DmsText(o.layout, o.lat, o.lon))
      [] o.kind = "tokens" -> Str(JoinWith(o.tokens, o.delim))
      [] o.kind = "raw" -> Str(o.text)
      [] o.kind = "value" -> NonString(o.ty)
      [] o.kind = "text" -> Str(JoinWith(o.lines, o.newline))

----------------------------------------------------------------------------
(* The parser's methods, called on one input *)

\* the converter and the application before any call
DmsUnset == [tag |-> "unset", degrees |-> JsNull, minutes |-> JsNull, seconds |-> JsNull,
             cardinal |-> <<>>]
TextUnset == [tag |-> "unset", lat |-> <<>>, lon |-> <<>>]

ConverterIdle ==
    /\ cvValue = JsUndefined /\ cvCardinal = FALSE
    /\ cvDms = DmsUnset /\ cvBack = JsUndefined
    /\ cvPair = <<JsUndefined, JsUndefined>> /\ cvText = TextUnset
    /\ vnArgs = <<JsUndefined, JsUndefined>> /\ vnResult = Unset
    /\ wrapPc = "idle" /\ wrapLon = JsUndefined

AppIdle ==
    /\ pasteText = <<>> /\ coordinates = <<>> /\ rows = <<>>
    /\ matrixArgs = <<>> /\ message = "none"

\* the distance calculator before any call
DistanceUnset == [tag |-> "unset", km |-> JsNull, miles |-> JsNull]
NoPair == <<JsUndefined, JsUndefined, JsUndefined, JsUndefined, JsUndefined, JsUndefined>>
MatrixUnset == [tag |-> "unset"]

EngineIdle ==
    /\ pairArgs = NoPair /\ pair2D = DistanceUnset /\ pair3D = DistanceUnset
    /\ dcCoordinates = ArrayUnset /\ dcInclude = <<FALSE, FALSE>> /\ dcResult = MatrixUnset

\* the formatters and the assessments before any call
NoFormat == <<JsUndefined, "undefined">>
FormatUnset == [tag |-> "unset", value |-> JsNull, unit |-> ""]
NoOffsets == <<JsUndefined, JsUndefined>>
ConclusionUnset == [tag |-> "unset"]

DisplayIdle ==
    /\ fmtArgs = NoFormat /\ fmtResult = FormatUnset /\ fmtReport = FormatUnset
    /\ offsets = NoOffsets /\ assessment = "" /\ conclusion = ConclusionUnset
    /\ reportAssessment = ""

\* the storage manager before any call, localStorage and the server holding nothing
NoCall == [tag |-> "unset"]

StorageIdle ==
    /\ now = 0 /\ store = <<>> /\ server = {}
    /\ saved = NoCall /\ fetched = NoCall

ParserInit ==
    /\ origin \in ParserOrigins
    /\ input = InputOf(origin)
    /\ parsed = Unset /\ withElev = Unset /\ batch = ArrayUnset /\ format = "unset"
    /\ ConverterIdle /\ AppIdle /\ EngineIdle /\ DisplayIdle /\ StorageIdle

CallParseCoordinate ==
    /\ parsed = Unset
    /\ parsed' = parseCoordinate(input)
    /\ UNCHANGED <<origin, input, withElev, batch, format, converterVars, appVars, engineVars, displayVars,
                   wrapVars, storageVars>>

\* parseMultipleCoordinates hands parseCoordinateWithElevation one trimmed,
\* non-empty line at a time
IsTrimmedLine(v) ==
    /\ v.ty = "string" /\ v.s # <<>> /\ Trim(v.s) = v.s
    /\ \A i \in 1..Len(v.s) : v.s[i] # "nl"

CallParseCoordinateWithElevation ==
    /\ withElev = Unset
    /\ IsTrimmedLine(input)
    /\ withElev' = parseCoordinateWithElevation(input.s)
    /\ UNCHANGED <<origin, input, parsed, batch, format, converterVars, appVars, engineVars, displayVars,
                   wrapVars, storageVars>>

CallParseMultipleCoordinates ==
    /\ batch = ArrayUnset
    /\ batch' = parseMultipleCoordinates(input)
    /\ UNCHANGED <<origin, input, parsed, withElev, format, converterVars, appVars, engineVars, displayVars,
                   wrapVars, storageVars>>

\* handleConversion hands detectFormat the value of the one-line conversion field
CallDetectFormat ==
    /\ format = "unset"
    /\ origin.kind # "text"
    /\ format' = detectFormat(input)
    /\ UNCHANGED <<origin, input, parsed, withElev, batch,
                   converterVars, appVars, engineVars, displayVars, wrapVars, storageVars>>

ParserNext ==
    \/ CallParseCoordinate
    \/ CallParseCoordinateWithElevation
    \/ CallParseMultipleCoordinates
    \/ CallDetectFormat

SpecParser == ParserInit /\ [][ParserNext]_vars

----------------------------------------------------------------------------
(* Properties of the parser *)

\* the angle an `Angle` is written for: degrees + minutes/60 + seconds/3600
Magnitude(a) == RatAdd(RatAdd(Int2Num(a.deg), Rat(a.min, 60)), Rat(a.sec10, 36000))

SouthOrWest(a) == a.card \in {<<"S">>, <<"s">>, <<"W">>, <<"w">>}

\* the degrees token is a negative number ("-0" is zero, which is not negative)
NegativeDegrees(a) == a.neg /\ a.deg > 0

SignedMagnitude(a) ==
    IF NegativeDegrees(a) \/ SouthOrWest(a) THEN RatNeg(Magnitude(a)) ELSE Magnitude(a)

Zero == Int2Num(0)

\* C1: a space-separated sextuple D M S D M S whose degrees tokens carry no '-'
\* parses to a positive (North) latitude and a negative (West) longitude.
C1_SpaceSeparatedDefaultsToWest ==
    (/\ origin.kind = "dms" /\ origin.layout = "space"
     /\ ~origin.lat.neg /\ ~origin.lon.neg
     /\ parsed # Unset)
    => /\ parsed.tag = "coord"
       /\ JsGreater(parsed.lat, Zero)
       /\ JsLess(parsed.lon, Zero)

MAX_ELEVATION == 11000

ElevationInPolicy(e) ==
    \/ e = JsNull
    \/ /\ IsNum(e)
       /\ JsLessEq(e, Int2Num(MAX_ELEVATION))
       /\ JsGreaterEq(e, Int2Num(-MAX_ELEVATION))

C6_ElevationNullOrWithinPolicy ==
    batch.tag = "array" =>
        \A k \in 1..Len(batch.items) : ElevationInPolicy(batch.items[k].elevation)

\* the order of the notations: space-separated DMS, DMS with leading letters, DMS
\* with symbols, decimal with leading letters, bare decimal pair
NotationOrder ==
    <<"dmsSpaceSeparated", "dmsWithCardinal", "dmsWithSymbols",
      "decimalWithCardinal", "decimalDegrees">>

\* the places in NotationOrder of the patterns that match the text
Matching(text) == {k \in 1..Len(NotationOrder) : Test(Pattern(NotationOrder[k]), text)}

\* what the extractor of a notation makes of its pattern's match
ExtractedFrom(name, m) == Extract(name, m.caps, Floats(m.caps))
ExtractedBy(name, text) == ExtractedFrom(name, Exec(Pattern(name), text))

\* C7: parseCoordinate returns what the earliest notation, in the order above, whose
\* pattern matches the trimmed input extracts from it.
C7_EarliestNotationWins ==
    (parsed # Unset /\ input.ty = "string" /\ Matching(Trim(input.s)) # {})
    => parsed = ExtractedBy(NotationOrder[SetMin(Matching(Trim(input.s)))], Trim(input.s))

\* C7's case: text that two patterns match
C7_Witness ==
    /\ parsed.tag = "coord" /\ input.ty = "string"
    /\ Cardinality(Matching(Trim(input.s))) >= 2

\* the windows of `count` tokens that parseCoordinate accepts, by their first token
WindowText(tokens, i, count) == Str(JoinSpace(SubSeq(tokens, i, i + count - 1)))
Accepted(tokens, count) ==
    {i \in 1..(Len(tokens) - count + 1) :
        parseCoordinate(WindowText(tokens, i, count)).tag = "coord"}

\* the coordinate of the window and the elevation of the token after it
FromWindow(tokens, i, count, result) ==
    /\ result.tag = "coord"
    /\ LatLon(result.lat, result.lon) = parseCoordinate(WindowText(tokens, i, count))
    /\ result.elevation =
           IF i + count <= Len(tokens) THEN ParseFloat(tokens[i + count]) ELSE JsNull

FromLeftmost(tokens, count, result) ==
    FromWindow(tokens, SetMin(Accepted(tokens, count)), count, result)

\* C8: on a line of more than 3 tokens parseCoordinateWithElevation takes the
\* leftmost accepted window of 6 tokens when there is one, else the leftmost accepted
\* window of 2 tokens; the elevation is the token after the window, null when the
\* window ends the line.
C8_SixTokenWindowFirst ==
    (origin.kind = "tokens" /\ Len(origin.tokens) > 3 /\ withElev # Unset)
    => IF Accepted(origin.tokens, 6) # {} THEN FromLeftmost(origin.tokens, 6, withElev)
       ELSE Accepted(origin.tokens, 2) # {} => FromLeftmost(origin.tokens, 2, withElev)

\* C8's case: a line with an accepted window of 6 tokens and accepted windows of 2,
\* a token before the window and one after it
C8_Witness ==
    /\ origin.kind = "tokens" /\ Len(origin.tokens) = 8
    /\ Accepted(origin.tokens, 6) = {2} /\ 2 \in Accepted(origin.tokens, 2)
    /\ withElev.tag = "coord" /\ IsNum(withElev.elevation)

\* the entries of the batch: the parseable lines, in order
RECURSIVE ParseableLines(_)
ParseableLines(lines) ==
    IF lines = <<>> THEN <<>>
    ELSE Pushed(parseCoordinateWithElevation(Trim(Head(lines))), ParseableLines(Tail(lines)))

\* the lines a caller wrote
LinesOf(o) ==
    CASE o.kind = "text" -> o.lines
      [] o.kind = "value" -> <<>>
      [] OTHER -> <<InputOf(o).s>>

Unsupported(v) ==
    \/ v.ty # "string"
    \/ v.s = <<>>
    \/ Matching(Trim(v.s)) = {}

\* C9: parseCoordinate and parseMultipleCoordinates throw on no input; parseCoordinate
\* returns null for an empty input, a value that is no string and text in no
\* supported notation; the batch holds one entry for each parseable line, in the
\* order of the lines.
C9_NeverThrows ==
    /\ parsed # Unset =>
          /\ parsed.tag \in {"coord", "null"}
          /\ Unsupported(input) => parsed = Null
    /\ batch # ArrayUnset =>
          /\ batch.tag = "array"
          /\ batch.items = ParseableLines(LinesOf(origin))

\* C9's case: text whose first line is in no notation and whose second line is a
\* coordinate; parseCoordinate has returned null for it and the batch holds the
\* second line alone
C9_Witness ==
    /\ origin.kind = "text" /\ Len(origin.lines) = 2
    /\ Trim(origin.lines[1]) # <<>>
    /\ parseCoordinateWithElevation(Trim(origin.lines[1])) = Null
    /\ parsed = Null
    /\ batch.tag = "array" /\ Len(batch.items) = 1

----------------------------------------------------------------------------
(* CoordinateConverter.  A double is modelled by the rational it stands for, and  *)
(* -0 by 0: the converter compares, negates and prints Math.abs of its numbers,  *)
(* which tells the two zeros apart nowhere.                                      *)

dmsPrecision == 5

\* chars, padded with zeros on the left to f characters
Padded(chars, f) == [i \in 1..(f - Len(chars)) |-> "0"] \o chars

\* the decimal notation of n / 10^f with f digits after the point
FixedChars(n, f) == NumChars(n \div Pow10(f)) \o <<".">> \o Padded(NumChars(n % Pow10(f)), f)

\* Number.prototype.toFixed(f) of x >= 0: the n for which n / 10^f is nearest to x,
\* the larger n on a tie
ToFixed(x, f) == FixedChars(Floor(RatAdd(RatMul(x, Int2Num(Pow10(f))), Rat(1, 2))), f)

\* x - Math.floor(x)
FractionOf(x) == RatSub(x, Int2Num(Floor(x)))

\* what decimalToDMS and dmsToDecimal return
Dms(degrees, minutes, seconds, cardinal) ==
    [tag |-> "dms", degrees |-> degrees, minutes |-> minutes, seconds |-> seconds,
     cardinal |-> cardinal]
DmsNull == [tag |-> "null", degrees |-> JsNull, minutes |-> JsNull, seconds |-> JsNull,
            cardinal |-> <<>>]

\* the object decimalToDMS returns, from its locals
DmsOfMinutes(isNegative, degrees, minutesFloat, includeCardinal) ==
    Dms(IF isNegative THEN Int2Num(-degrees) ELSE Int2Num(degrees),
        Int2Num(Floor(minutesFloat)),
        ParseFloat(ToFixed(RatMul(FractionOf(minutesFloat), Int2Num(60)), dmsPrecision)),
        IF includeCardinal THEN (IF isNegative THEN <<"S">> ELSE <<"N">>) ELSE <<>>)

DmsOfAbs(isNegative, absDegrees, includeCardinal) ==
    DmsOfMinutes(isNegative, Floor(absDegrees),
                 RatMul(FractionOf(absDegrees), Int2Num(60)), includeCardinal)

\* CoordinateConverter.decimalToDMS(decimalDegrees, includeCardinal)
decimalToDMS(decimal, includeCardinal) ==
    IF JsIsNaN(decimal) \/ ~JsIsFinite(decimal) THEN DmsNull
    ELSE DmsOfAbs(JsLess(decimal, Zero), RatAbs(ToNum(decimal)), includeCardinal)

\* the test of dmsToDecimal for a negative result
IsNegative(degrees, cardinal) ==
    JsLess(degrees, Zero) \/ ToUpperCase(cardinal) = <<"S">> \/ ToUpperCase(cardinal) = <<"W">>

\* CoordinateConverter.dmsToDecimal(degrees, minutes, seconds, cardinal)
converterDmsToDecimal(degrees, minutes, seconds, cardinal) ==
    IF JsIsNaN(degrees) \/ JsIsNaN(minutes) \/ JsIsNaN(seconds) THEN JsNull
    ELSE Signed(IF IsNegative(degrees, cardinal) THEN -1 ELSE 1,
                RatAdd(RatAdd(RatAbs(degrees), RatDivInt(minutes, 60)),
                       RatDivInt(seconds, 3600)))

\* CoordinateConverter.formatDMS(dms) with includeSymbols = true
formatDMS(dms) ==
    IF dms.tag # "dms" THEN <<>>
    ELSE NumChars(Abs(dms.degrees.n)) \o <<"deg", " ">>
         \o NumChars(dms.minutes.n) \o <<"'", " ">>
         \o ToFixed(dms.seconds, dmsPrecision) \o <<"\"">>
         \o (IF dms.cardinal # <<>> THEN <<" ">> \o dms.cardinal ELSE <<>>)

\* CoordinateConverter.convertToDMS(lat, lon)
convertToDMS(lat, lon) ==
    [tag |-> "text", lat |-> formatDMS(decimalToDMS(lat, TRUE)),
     lon |-> formatDMS(decimalToDMS(lon, TRUE))]

\* the value of normalizedLon in a loop that is never left
Stuck == [k |-> "stuck", n |-> 0, d |-> 1]

\* validateAndNormalize when one of its loops is never left: the call does not return
Hangs == [tag |-> "hangs", lat |-> JsNull, lon |-> JsNull, elevation |-> JsNull]

\* while (normalizedLon > 180) normalizedLon -= 360; a value the subtraction leaves
\* unchanged is never left
RECURSIVE WrapDown(_)
WrapDown(normalizedLon) ==
    IF ~JsGreater(normalizedLon, Int2Num(180)) THEN normalizedLon
    ELSE IF JsAddRat(normalizedLon, Int2Num(-360)) = normalizedLon THEN Stuck
    ELSE WrapDown(JsAddRat(normalizedLon, Int2Num(-360)))

\* while (normalizedLon < -180) normalizedLon += 360
RECURSIVE WrapUp(_)
WrapUp(normalizedLon) ==
    IF ~JsLess(normalizedLon, Int2Num(-180)) THEN normalizedLon
    ELSE IF JsAddRat(normalizedLon, Int2Num(360)) = normalizedLon THEN Stuck
    ELSE WrapUp(JsAddRat(normalizedLon, Int2Num(360)))

\* the end of validateAndNormalize, with normalizedLon as the loops leave it
Normalized(lat, normalizedLon) ==
    IF normalizedLon = Stuck THEN Hangs
    ELSE IF JsLess(lat, Int2Num(-90)) \/ JsGreater(lat, Int2Num(90)) THEN Null
    ELSE LatLon(lat, normalizedLon)

\* CoordinateConverter.validateAndNormalize(lat, lon)
validateAndNormalize(lat, lon) ==
    IF JsIsNaN(lat) \/ JsIsNaN(lon) \/ ~JsIsFinite(lat) \/ ~JsIsFinite(lon) THEN Null
    ELSE Normalized(lat, WrapUp(WrapDown(ToNum(lon))))

----------------------------------------------------------------------------
(* The converter's methods, called on one argument list *)

\* decimal degrees that are doubles exactly (44.5, -70.875, ...) and sevenths, whose
\* seconds toFixed rounds
DecimalValues ==
    { Rat(89, 2), Rat(-567, 8), Rat(-1, 2), Rat(1, 4), Int2Num(0), Int2Num(90),
      Int2Num(-90), Int2Num(180), Int2Num(-180), Rat(449, 4), Rat(-3, 16),
      Rat(1, 7), Rat(-3, 7), Rat(15, 7), Rat(-15, 7) }

NotNumbers == {NaN, Infinity(1), Infinity(-1)}

LatLonPairs ==
    {<<lat, lon>> : lat \in {Rat(89, 2), Rat(-1, 2), Rat(1, 7)},
                    lon \in {Rat(-567, 8), Rat(449, 4), Int2Num(0)}}

Latitudes ==
    {Int2Num(0), Int2Num(90), Int2Num(-90), Int2Num(91), Rat(-181, 2), Rat(89, 2),
     Huge(1)} \cup NotNumbers
Longitudes ==
    {Int2Num(0), Int2Num(180), Int2Num(-180), Int2Num(200), Int2Num(-160), Int2Num(181),
     Int2Num(560), Rat(-1801, 2), Int2Num(-540), Huge(1), Huge(-1)} \cup NotNumbers

NoArgs == <<JsUndefined, JsUndefined>>

ParserIdle ==
    /\ origin = ValueOrigin("undefined") /\ input = NonString("undefined")
    /\ parsed = Unset /\ withElev = Unset /\ batch = ArrayUnset /\ format = "unset"

ConverterInit ==
    /\ \/ /\ cvValue \in DecimalValues \cup NotNumbers /\ cvCardinal \in BOOLEAN
          /\ cvPair = NoArgs /\ vnArgs = NoArgs
       \/ /\ cvValue = JsUndefined /\ cvCardinal = FALSE
          /\ cvPair \in LatLonPairs /\ vnArgs = NoArgs
       \/ /\ cvValue = JsUndefined /\ cvCardinal = FALSE
          /\ cvPair = NoArgs /\ vnArgs \in Latitudes \X Longitudes
    /\ cvDms = DmsUnset /\ cvBack = JsUndefined /\ cvText = TextUnset /\ vnResult = Unset
    /\ wrapPc = "idle" /\ wrapLon = JsUndefined
    /\ ParserIdle /\ AppIdle /\ EngineIdle /\ DisplayIdle /\ StorageIdle

CallDecimalToDMS ==
    /\ cvValue # JsUndefined /\ cvDms = DmsUnset
    /\ cvDms' = decimalToDMS(cvValue, cvCardinal)
    /\ UNCHANGED <<cvValue, cvCardinal, cvBack, cvPair, cvText, vnArgs, vnResult,
                   parserVars, appVars, engineVars, displayVars, wrapVars, storageVars>>

\* dmsToDecimal on the fields of the object decimalToDMS returned
CallDmsToDecimal ==
    /\ cvDms.tag = "dms" /\ cvBack = JsUndefined
    /\ cvBack' = converterDmsToDecimal(cvDms.degrees, cvDms.minutes, cvDms.seconds,
                                       cvDms.cardinal)
    /\ UNCHANGED <<cvValue, cvCardinal, cvDms, cvPair, cvText, vnArgs, vnResult,
                   parserVars, appVars, engineVars, displayVars, wrapVars, storageVars>>

CallConvertToDMS ==
    /\ cvPair # NoArgs /\ cvText = TextUnset
    /\ cvText' = convertToDMS(cvPair[1], cvPair[2])
    /\ UNCHANGED <<cvValue, cvCardinal, cvDms, cvBack, cvPair, vnArgs, vnResult,
                   parserVars, appVars, engineVars, displayVars, wrapVars, storageVars>>

CallValidateAndNormalize ==
    /\ vnArgs # NoArgs /\ vnResult = Unset
    /\ vnResult' = validateAndNormalize(vnArgs[1], vnArgs[2])
    /\ UNCHANGED <<cvValue, cvCardinal, cvDms, cvBack, cvPair, cvText, vnArgs,
                   parserVars, appVars, engineVars, displayVars, wrapVars, storageVars>>

ConverterNext ==
    \/ CallDecimalToDMS
    \/ CallDmsToDecimal
    \/ CallConvertToDMS
    \/ CallValidateAndNormalize

SpecConverter == ConverterInit /\ [][ConverterNext]_vars

----------------------------------------------------------------------------
(* Properties of the converter *)

\* |x - y| <= 1e-5: for x - y = n/d, 100000 * |n| <= d
WithinTolerance(x, y) == Abs(RatSub(x, y).n) <= RatSub(x, y).d \div 100000

\* C3: decimalToDMS(v, includeCardinal) followed by dmsToDecimal on its fields gives
\* back v to within 1e-5 degrees, for every v in [-180, 180] and both settings of
\* includeCardinal.
C3_RoundTripWithinTolerance ==
    (IsNum(cvValue) /\ cvBack # JsUndefined)
    => IsNum(cvBack) /\ WithinTolerance(cvBack, cvValue)

\* the last character of a text
Last(text) == text[Len(text)]

\* C4: with includeCardinal the degrees decimalToDMS returns are unsigned, and in
\* the texts of convertToDMS the letter is N or S for the latitude and E or W for
\* the longitude.
C4_UnsignedDegreesAndAxisLetter ==
    /\ (cvCardinal /\ cvDms.tag = "dms") => ~JsLess(cvDms.degrees, Zero)
    /\ cvText.tag = "text" => /\ Last(cvText.lat) \in {"N", "S"}
                              /\ Last(cvText.lon) \in {"E", "W"}

\* x is a whole number of turns
WholeTurns(x) == RatDivInt(x, 360).d = 1

InRange(x, low, high) == JsGreaterEq(x, Int2Num(low)) /\ JsLessEq(x, Int2Num(high))

\* C10: validateAndNormalize(lat, lon) returns null for an input that is not finite
\* and for a latitude outside [-90, 90]; for any other input it returns lat and a
\* longitude in [-180, 180] that is lon plus a whole multiple of 360.
C10_NullOrWrappedLongitude ==
    vnResult # Unset =>
        IF ~JsIsFinite(vnArgs[1]) \/ ~JsIsFinite(vnArgs[2]) THEN vnResult = Null
        ELSE IF ~InRange(vnArgs[1], -90, 90) THEN vnResult = Null
        ELSE /\ vnResult.tag = "coord"
             /\ vnResult.lat = vnArgs[1]
             /\ IsNum(vnResult.lon) /\ InRange(vnResult.lon, -180, 180)
             /\ IsNum(vnArgs[2]) /\ WholeTurns(RatSub(vnResult.lon, vnArgs[2]))

----------------------------------------------------------------------------
(* GPSCalculatorApp: the rows of the manual mode, the Parse and Calculate buttons *)

maxCoordinates == 8

\* an entry of this.coordinates
AppCoordinate(lat, lon, elevation) == [lat |-> lat, lon |-> lon, elevation |-> elevation]

\* the values of the lat, lon and elevation fields of a .coordinate-row
Row(lat, lon, elevation) == [lat |-> lat, lon |-> lon, elevation |-> elevation]

\* the digits after the point of the decimal notation of n/d, 0 <= n < d, where d
\* divides 10^k
FractionChars(n, d, k) == Padded(NumChars(n * (Pow10(k) \div d)), k)

\* the number of digits after the point in the decimal notation of a rational
FractionDigits(x) == SetMin({k \in 0..8 : Pow10(k) % x.d = 0})

\* String(x) of a number, as a template literal writes it
NumberToString(x) ==
    CASE x.k = "num" ->
           (IF x.n < 0 THEN <<"-">> ELSE <<>>) \o NumChars(Abs(x.n) \div x.d)
           \o (IF x.d = 1 THEN <<>>
               ELSE <<".">> \o FractionChars(Abs(x.n) % x.d, x.d, FractionDigits(x)))
      [] x.k = "huge" ->
           (IF x.n < 0 THEN <<"-">> ELSE <<>>) \o <<"1">> \o [i \in 1..19 |-> "0"]
      [] x.k = "inf" -> (IF x.n < 0 THEN <<"-">> ELSE <<>>) \o InfinityWord
      [] x.k = "nan" -> <<"N", "a", "N">>
      [] x.k = "null" -> <<"n", "u", "l", "l">>
      [] OTHER -> <<"u", "n", "d", "e", "f", "i", "n", "e", "d">>

\* x * r and x / r for a rational r > 0
JsMulRat(x, r) ==
    CASE x.k = "num" -> RatMul(x, r)
      [] x.k \in {"inf", "huge"} -> x
      [] x.k = "null" -> Zero
      [] OTHER -> NaN

\* the metres of a foot and of a survey foot
MetersPer(unit) ==
    CASE unit = "feet" -> Rat(381, 1250)
      [] unit = "survey-feet" -> Rat(30480061, 100000000)
      [] OTHER -> Int2Num(1)

Inverse(r) == Rat(r.d, r.n)

\* DistanceCalculator.convertElevation(elevation, fromUnit, toUnit)
convertElevation(elevation, fromUnit, toUnit) ==
    IF fromUnit = toUnit THEN elevation
    ELSE IF fromUnit \notin {"meters", "feet", "survey-feet"} THEN elevation
    ELSE JsMulRat(JsMulRat(elevation, MetersPer(fromUnit)), Inverse(MetersPer(toUnit)))

\* the filter of handleParseCoordinates and handleDistanceCalculation
IsValidPoint(coord) ==
    /\ coord.lat # JsNull /\ coord.lon # JsNull
    /\ ~JsIsNaN(coord.lat) /\ ~JsIsNaN(coord.lon)
    /\ JsIsFinite(coord.lat) /\ JsIsFinite(coord.lon)

\* the map of handleParseCoordinates: the elevation converted to metres
InMeters(coord, defaultElevationUnit) ==
    AppCoordinate(coord.lat, coord.lon,
                  IF coord.elevation # JsNull /\ coord.elevation # JsUndefined
                  THEN convertElevation(coord.elevation, defaultElevationUnit, "meters")
                  ELSE coord.elevation)

\* a number in a condition: 0 and NaN are false, like null and undefined
Truthy(x) == x.k \in {"inf", "huge"} \/ (x.k = "num" /\ x.n # 0)

\* the field values addCoordinateRow(coord, index) writes into its row
RowOf(coord) ==
    Row(NumberToString(coord.lat), NumberToString(coord.lon),
        IF Truthy(coord.elevation) THEN NumberToString(coord.elevation) ELSE <<>>)

EmptyRow == Row(<<>>, <<>>, <<>>)
EmptyCoordinate == AppCoordinate(JsNull, JsNull, JsNull)

\* populateManualMode: the table is emptied, then addCoordinateRow(coord, index) runs
\* for each entry of this.coordinates; it adds no row once this.coordinates holds
\* maxCoordinates entries
populateManualMode(coords) ==
    IF Len(coords) >= maxCoordinates THEN <<>>
    ELSE [k \in 1..Len(coords) |-> RowOf(coords[k])]

\* the state a handler leaves
Left(coords, table, matrix, msg) ==
    [coordinates |-> coords, rows |-> table, matrixArgs |-> matrix, message |-> msg]

\* handleParseCoordinates after its filter
Populated(coords, table, matrix) ==
    IF coords = <<>> THEN Left(coords, table, matrix, "No valid coordinates found after parsing")
    ELSE Left(coords, populateManualMode(coords), matrix, "Successfully parsed")

\* handleParseCoordinates after parseMultipleCoordinates
Parsed(parsedCoordinates, defaultElevationUnit, coords, table, matrix) ==
    IF Len(parsedCoordinates) = 0 THEN Left(coords, table, matrix, "No valid coordinates found")
    ELSE IF Len(parsedCoordinates) > maxCoordinates
         THEN Left(coords, table, matrix, "Too many coordinates")
    ELSE Populated(SelectSeq([k \in 1..Len(parsedCoordinates) |->
                                 InMeters(parsedCoordinates[k], defaultElevationUnit)],
                             IsValidPoint),
                   table, matrix)

\* GPSCalculatorApp.handleParseCoordinates, the textarea holding `text`
handleParseCoordinates(text, defaultElevationUnit, coords, table, matrix) ==
    IF Trim(text) = <<>> THEN Left(coords, table, matrix, "Please enter coordinates to parse")
    ELSE Parsed(parseMultipleCoordinates(Str(Trim(text))).items, defaultElevationUnit,
                coords, table, matrix)

\* parseFloat(value) || null
FloatOrNull(value) == IF Truthy(ParseFloat(value)) THEN ParseFloat(value) ELSE JsNull

\* updateCoordinatesFromManual: this.coordinates rebuilt from the rows, whose unit
\* radio is on Meters
updateCoordinatesFromManual(table) ==
    [k \in 1..Len(table) |->
        AppCoordinate(FloatOrNull(table[k].lat), FloatOrNull(table[k].lon),
                      IF FloatOrNull(table[k].elevation) # JsNull
                      THEN convertElevation(FloatOrNull(table[k].elevation), "meters", "meters")
                      ELSE JsNull)]

\* an exception no handler catches: the click ends there, the results stay hidden
Uncaught == "TypeError: Cannot read properties of null (reading 'toFixed')"

\* displayDetailedCalculations, with and without the reference point every point is in
\* one of the pairs shown: createCondensedRow subtracts the elevations, while
\* calculateDetailedDistance also writes coord.elevation.toFixed(3) for both points
displayDetailedCalculations(coords, isCondensed) ==
    IF isCondensed THEN "results"
    ELSE IF \E k \in 1..Len(coords) : coords[k].elevation = JsNull THEN Uncaught
    ELSE "results"

\* handleDistanceCalculation after updateCoordinatesFromManual and the filter;
\* calculateDistanceMatrix returns an object for two points or more, then
\* displayDistanceResults runs
Calculated(coords, validCoordinates, show2D, show3D, isCondensed, table, matrix) ==
    IF Len(validCoordinates) < 2
    THEN Left(coords, table, matrix, "At least 2 valid coordinates are required")
    ELSE IF ~show2D /\ ~show3D
         THEN Left(coords, table, matrix, "Please select at least one distance type")
    ELSE Left(coords, table, validCoordinates,
              displayDetailedCalculations(validCoordinates, isCondensed))

Updated(coords, show2D, show3D, isCondensed, table, matrix) ==
    Calculated(coords, SelectSeq(coords, IsValidPoint), show2D, show3D, isCondensed,
               table, matrix)

\* GPSCalculatorApp.handleDistanceCalculation; matrixArgs is the list it hands to
\* calculateDistanceMatrix
handleDistanceCalculation(show2D, show3D, isCondensed, table, matrix) ==
    Updated(updateCoordinatesFromManual(table), show2D, show3D, isCondensed, table, matrix)

\* GPSCalculatorApp.addCoordinateRow() of the Add button
addCoordinateRow(coords, table, matrix, msg) ==
    IF Len(coords) >= maxCoordinates THEN Left(coords, table, matrix, "Maximum coordinates allowed")
    ELSE Left(Append(coords, EmptyCoordinate), Append(table, EmptyRow), matrix, msg)

ButLast(q) == SubSeq(q, 1, Len(q) - 1)

\* GPSCalculatorApp.removeCoordinateRow()
removeCoordinateRow(coords, table, matrix, msg) ==
    IF Len(coords) <= 2 THEN Left(coords, table, matrix, "Minimum 2 coordinates required")
    ELSE IF table = <<>> THEN Left(coords, table, matrix, msg)
    ELSE Left(ButLast(coords), ButLast(table), matrix, msg)

----------------------------------------------------------------------------
(* The application: text is pasted, then the buttons are clicked in any order *)

\* lines a user pastes: a point with its elevation, a point outside the ranges,
\* text that is no coordinate, the origin with an elevation
AppLines ==
    { JoinSpace(Dec2 \o << <<"1", "0", "0">> >>), JoinSpace(Far2),
      <<"a", " ", "b", " ", "c", " ", "d">>,
      JoinSpace(<< <<"0">>, <<"0">>, <<"1", "2", "0", "0", "0">> >>) }

\* k lines, each a point one degree north of the line before
NorthwardLines(k) == [i \in 1..k |-> NumChars(i) \o <<" ">> \o <<"7">>]

AppTexts ==
    {JoinWith(lines, <<"nl">>) : lines \in UNION {SeqsOf(AppLines, n) : n \in 1..MaxLines}}
    \cup {<<>>} \cup {JoinWith(NorthwardLines(k), <<"nl">>) : k \in 2..(maxCoordinates + 1)}

ElevationUnits == {"meters", "feet", "survey-feet"}

\* the constructor: this.coordinates = [] and initializeManualMode's two rows
AppInit ==
    /\ pasteText \in AppTexts
    /\ coordinates = <<EmptyCoordinate, EmptyCoordinate>>
    /\ rows = <<EmptyRow, EmptyRow>>
    /\ matrixArgs = <<>>
    /\ message = "none"
    /\ ParserIdle /\ ConverterIdle /\ EngineIdle /\ DisplayIdle /\ StorageIdle

ClickParse ==
    \E defaultElevationUnit \in ElevationUnits :
        \E left \in {handleParseCoordinates(pasteText, defaultElevationUnit,
                                            coordinates, rows, matrixArgs)} :
            /\ coordinates' = left.coordinates /\ rows' = left.rows
            /\ matrixArgs' = left.matrixArgs /\ message' = left.message
            /\ UNCHANGED <<pasteText, parserVars, converterVars, engineVars, displayVars, wrapVars, storageVars>>

ClickCalculate ==
    \E show2D \in BOOLEAN, show3D \in BOOLEAN, isCondensed \in BOOLEAN :
        \E left \in {handleDistanceCalculation(show2D, show3D, isCondensed, rows,
                                                matrixArgs)} :
            /\ coordinates' = left.coordinates /\ rows' = left.rows
            /\ matrixArgs' = left.matrixArgs /\ message' = left.message
            /\ UNCHANGED <<pasteText, parserVars, converterVars, engineVars, displayVars, wrapVars, storageVars>>

ClickAdd ==
    \E left \in {addCoordinateRow(coordinates, rows, matrixArgs, message)} :
        /\ coordinates' = left.coordinates /\ rows' = left.rows
        /\ matrixArgs' = left.matrixArgs /\ message' = left.message
        /\ UNCHANGED <<pasteText, parserVars, converterVars, engineVars, displayVars, wrapVars, storageVars>>

ClickRemove ==
    \E left \in {removeCoordinateRow(coordinates, rows, matrixArgs, message)} :
        /\ coordinates' = left.coordinates /\ rows' = left.rows
        /\ matrixArgs' = left.matrixArgs /\ message' = left.message
        /\ UNCHANGED <<pasteText, parserVars, converterVars, engineVars, displayVars, wrapVars, storageVars>>

AppNext ==
    \/ ClickParse
    \/ ClickCalculate
    \/ ClickAdd
    \/ ClickRemove

SpecApp == AppInit /\ [][AppNext]_vars

----------------------------------------------------------------------------
(* Properties of the application *)

\* the Coordinate invariants: lat and lon finite, lat in [-90, 90], lon in [-180, 180]
IsCoordinate(coord) ==
    /\ IsNum(coord.lat) /\ InRange(coord.lat, -90, 90)
    /\ IsNum(coord.lon) /\ InRange(coord.lon, -180, 180)

\* C5: every coordinate handed to calculateDistanceMatrix has a finite latitude in
\* [-90, 90] and a finite longitude in [-180, 180].
C5_MatrixCoordinatesInRange ==
    \A k \in 1..Len(matrixArgs) : IsCoordinate(matrixArgs[k])

----------------------------------------------------------------------------
(* The distance calculator (distance-calculator.js)                        *)
(*                                                                         *)
(* The points of the model lie on one meridian, a hundred-thousandth of a  *)
(* degree (1.112 m) apart, and their elevations are whole metres: there    *)
(* deltaLon = 0, the haversine term a is sin^2(deltaLat / 2) and the       *)
(* central angle c is |deltaLat|, so every distance is a rational or the   *)
(* square root of one.  Math.PI is the rational 355/113, which gives the   *)
(* same six decimals as the double for these distances.                    *)

earthRadiusKm == 6371
earthRadiusMiles == 3959
Pi == Rat(355, 113)

\* a { km, miles } object, and null in its place
Distance(km, miles) == [tag |-> "distance", km |-> km, miles |-> miles]
NullDistance == [tag |-> "null", km |-> JsNull, miles |-> JsNull]

\* parseFloat(x.toFixed(6)) of x >= 0
ToFixed6(x) ==
    IF x.d = 1 THEN x ELSE Rat(Floor(RatAdd(RatMul(x, Int2Num(1000000)), Rat(1, 2))), 1000000)

\* validateCoordinates without its test of the longitude's range
validateCoordinatesLatitudeOnly(lat, lon) ==
    /\ JsGreaterEq(lat, Int2Num(-90)) /\ JsLessEq(lat, Int2Num(90))
    /\ ~JsIsNaN(lat) /\ ~JsIsNaN(lon) /\ JsIsFinite(lat) /\ JsIsFinite(lon)

\* DistanceCalculator.validateCoordinates(lat, lon)
validateCoordinates(lat, lon) ==
    /\ JsGreaterEq(lat, Int2Num(-90)) /\ JsLessEq(lat, Int2Num(90))
    /\ JsGreaterEq(lon, Int2Num(-180)) /\ JsLessEq(lon, Int2Num(180))
    /\ ~JsIsNaN(lat) /\ ~JsIsNaN(lon) /\ JsIsFinite(lat) /\ JsIsFinite(lon)

\* DistanceCalculator.toRadians(degrees) of a finite number (null is 0)
toRadians(degrees) == RatMul(ToNum(degrees), RatDivInt(Pi, 180))

\* c = 2 * Math.atan2(Math.sqrt(a), Math.sqrt(1 - a)) for deltaLon = 0
CentralAngle(lat1Rad, lat2Rad) == RatAbs(RatSub(lat2Rad, lat1Rad))

\* the { km, miles } of a central angle
Haversine(c) ==
    IF c = Zero THEN Distance(Zero, Zero)
    ELSE Distance(ToFixed6(RatMul(Int2Num(earthRadiusKm), c)),
                  ToFixed6(RatMul(Int2Num(earthRadiusMiles), c)))

\* DistanceCalculator.calculate2DDistance(lat1, lon1, lat2, lon2)
calculate2DDistance(lat1, lon1, lat2, lon2) ==
    IF ~validateCoordinates(lat1, lon1) \/ ~validateCoordinates(lat2, lon2) THEN NullDistance
    ELSE Haversine(CentralAngle(toRadians(lat1), toRadians(lat2)))

\* the largest r of low..high with r * r <= n
RECURSIVE SqrtBetween(_, _, _)
SqrtBetween(n, low, high) ==
    IF low = high THEN low
    ELSE IF ((low + high + 1) \div 2) * ((low + high + 1) \div 2) <= n
         THEN SqrtBetween(n, (low + high + 1) \div 2, high)
    ELSE SqrtBetween(n, low, ((low + high + 1) \div 2) - 1)

\* the next decimal digit of a square root: with r = floor(sqrt(N)) and rem = N - r * r,
\* the pair for 100 * N
Digit(r, rem) == SetMax({d \in 0..9 : 20 * r * d + d * d <= 100 * rem})
NextDigit(r, rem, d) == <<10 * r + d, 100 * rem - (20 * r * d + d * d)>>
Refined(root) == NextDigit(root[1], root[2], Digit(root[1], root[2]))

\* floor(1000 * Math.sqrt(n)) for a whole n
SqrtFrom(n, r) == Refined(Refined(Refined(<<r, n - r * r>>)))[1]
Sqrt1000(n) == IF n = 0 THEN 0 ELSE SqrtFrom(n, SqrtBetween(n, 0, 46340))

\* x rounded to a whole number of thousands
Thousands(x) == (x + 500) \div 1000

\* x * 0.621371 rounded to a whole number of thousands: the product x * 621371 by
\* groups of three digits, x being x2 * 10^6 + x1 * 10^3 + x0
MilesLow(x1, x0) == (x1 * 371 + x0 * 621) * 1000 + x0 * 371
MilesMid(x2, x1) == x2 * 371 + x1 * 621
MilesFrom(x2, mid, low) ==
    x2 * 621 + mid \div 1000 + ((mid % 1000) * 1000 + low \div 1000 + 500000) \div 1000000
MilesOf(x) ==
    MilesFrom(x \div 1000000, MilesMid(x \div 1000000, (x \div 1000) % 1000),
              MilesLow((x \div 1000) % 1000, x % 1000))

\* Math.sqrt(Math.pow(distance2DMeters, 2) + Math.pow(elevationDiff, 2)) in micrometres,
\* the two terms being whole millimetres
Hypotenuse(distance2DMeters, elevationDiff) ==
    Sqrt1000(Floor(RatMul(distance2DMeters, Int2Num(1000)))
               * Floor(RatMul(distance2DMeters, Int2Num(1000)))
             + Floor(RatMul(elevationDiff, Int2Num(1000)))
               * Floor(RatMul(elevationDiff, Int2Num(1000))))

\* the { km, miles } of a 3D distance of x micrometres: distance3DKm.toFixed(6) and
\* (distance3DKm * 0.621371).toFixed(6)
Distance3D(x) ==
    IF x = 0 THEN Distance(Zero, Zero)
    ELSE Distance(Rat(Thousands(x), 1000000), Rat(MilesOf(x), 1000000))

\* calculate3DDistance from its const distance2D on
Elevated(distance2D, elev1, elev2) ==
    IF distance2D = NullDistance THEN NullDistance
    ELSE IF JsIsNaN(elev1) \/ JsIsNaN(elev2) \/ ~JsIsFinite(elev1) \/ ~JsIsFinite(elev2)
    THEN distance2D
    ELSE Distance3D(Hypotenuse(RatMul(distance2D.km, Int2Num(1000)),
                               RatAbs(RatSub(ToNum(elev1), ToNum(elev2)))))

\* DistanceCalculator.calculate3DDistance(lat1, lon1, elev1, lat2, lon2, elev2)
calculate3DDistance(lat1, lon1, elev1, lat2, lon2, elev2) ==
    Elevated(calculate2DDistance(lat1, lon1, lat2, lon2), elev1, elev2)

\* null where the result holds no matrix, statistics or cumulative distance
NullValue == [tag |-> "null"]

\* coord.elevation || 0
OrZero(elevation) == IF Truthy(elevation) THEN elevation ELSE Zero

\* the distance calculateDistanceMatrix and calculateCumulativeDistance compute for
\* two coordinates
PairDistance(coord1, coord2, use3D) ==
    IF use3D
    THEN calculate3DDistance(coord1.lat, coord1.lon, OrZero(coord1.elevation),
                             coord2.lat, coord2.lon, OrZero(coord2.elevation))
    ELSE calculate2DDistance(coord1.lat, coord1.lon, coord2.lat, coord2.lon)

\* a loop that fills the cells above the diagonal only
CellAboveDiagonal(coords, i, j, use3D) ==
    IF i = j THEN Distance(Zero, Zero)
    ELSE IF i > j THEN NullDistance
    ELSE PairDistance(coords[i], coords[j], use3D)

\* the cell [i][j] the loops of calculateDistanceMatrix write
Cell(coords, i, j, use3D) ==
    IF i = j THEN Distance(Zero, Zero)
    ELSE PairDistance(coords[i], coords[j], use3D)

\* createEmptyMatrix(n) filled by the loops
Matrix(coords, use3D) ==
    [tag |-> "matrix",
     cells |-> [i \in 1..Len(coords) |-> [j \in 1..Len(coords) |-> Cell(coords, i, j, use3D)]]]

\* the order in which the loops visit the cells
RowMajor(n) == [k \in 1..(n * n) |-> <<((k - 1) \div n) + 1, ((k - 1) % n) + 1>>]

\* distances2D / distances3D: the km of the cells off the diagonal that hold a distance,
\* pushed as the loops visit them
Observations(cells) ==
    LET visited == [k \in 1..(Len(cells) * Len(cells)) |->
                       [i |-> RowMajor(Len(cells))[k][1], j |-> RowMajor(Len(cells))[k][2],
                        distance |-> cells[RowMajor(Len(cells))[k][1]][RowMajor(Len(cells))[k][2]]]]
        pushed(cell) == cell.i # cell.j /\ cell.distance # NullDistance
        kept == SelectSeq(visited, pushed)
    IN  [k \in 1..Len(kept) |-> kept[k].distance.km]

RECURSIVE SumOf(_)
SumOf(numbers) == IF numbers = <<>> THEN Zero ELSE RatAdd(Head(numbers), SumOf(Tail(numbers)))

\* a number of at most six decimals, in millionths
Millionths(x) == x.n * (1000000 \div x.d)

\* sorted[0] and sorted[sorted.length - 1] of the distances sorted by a - b
MinOf(numbers) ==
    CHOOSE x \in Range(numbers) : \A y \in Range(numbers) : Millionths(x) <= Millionths(y)
MaxOf(numbers) ==
    CHOOSE x \in Range(numbers) : \A y \in Range(numbers) : Millionths(x) >= Millionths(y)

\* DistanceCalculator.calculateStatistics(distances)
calculateStatistics(distances) ==
    IF Len(distances) = 0 THEN NullValue
    ELSE [tag |-> "statistics",
          min |-> ToFixed6(MinOf(distances)),
          max |-> ToFixed6(MaxOf(distances)),
          average |-> ToFixed6(RatDivInt(SumOf(distances), Len(distances))),
          count |-> Len(distances)]

\* a loop over every pair i < j in place of the consecutive pairs
SegmentsOfAllPairs(coords, use3D) ==
    LET above(p) == p[1] < p[2] /\ PairDistance(coords[p[1]], coords[p[2]], use3D) # NullDistance
        pairs == SelectSeq(RowMajor(Len(coords)), above)
    IN  [k \in 1..Len(pairs) |->
            [from |-> pairs[k][1], to |-> pairs[k][2],
             distance |-> PairDistance(coords[pairs[k][1]], coords[pairs[k][2]], use3D)]]

\* the segments calculateCumulativeDistance pushes: the consecutive pairs that have a
\* distance
Segments(coords, use3D) ==
    LET distance(i) == PairDistance(coords[i], coords[i + 1], use3D)
        kept(segment) == segment.distance # NullDistance
    IN  SelectSeq([i \in 1..(Len(coords) - 1) |->
                      [from |-> i, to |-> i + 1, distance |-> distance(i)]],
                  kept)

\* the sums of calculateCumulativeDistance over its segments
Totals(segments) ==
    [tag |-> "cumulative",
     segments |-> segments,
     totalKm |-> ToFixed6(SumOf([k \in 1..Len(segments) |-> segments[k].distance.km])),
     totalMiles |-> ToFixed6(SumOf([k \in 1..Len(segments) |-> segments[k].distance.miles]))]

\* DistanceCalculator.calculateCumulativeDistance(coordinates, include3D)
calculateCumulativeDistance(coords, use3D) ==
    IF Len(coords) < 2 THEN NullValue ELSE Totals(Segments(coords, use3D))

\* the statistics of a matrix the call was asked for
StatisticsOf(matrix) ==
    IF matrix = NullValue THEN NullValue ELSE calculateStatistics(Observations(matrix.cells))

\* the object calculateDistanceMatrix returns
Results(matrix2D, matrix3D, cumulative2D, cumulative3D) ==
    [tag |-> "results",
     matrix2D |-> matrix2D, matrix3D |-> matrix3D,
     statistics2D |-> StatisticsOf(matrix2D), statistics3D |-> StatisticsOf(matrix3D),
     cumulative2D |-> cumulative2D, cumulative3D |-> cumulative3D]

\* DistanceCalculator.calculateDistanceMatrix(coordinates, include2D, include3D);
\* `coordinates` is an array or a value that is none (null, undefined)
calculateDistanceMatrix(coords, include2D, include3D) ==
    IF coords.tag # "array" THEN NullValue
    ELSE IF Len(coords.items) < 2 THEN NullValue
    ELSE Results(IF include2D THEN Matrix(coords.items, FALSE) ELSE NullValue,
                 IF include3D THEN Matrix(coords.items, TRUE) ELSE NullValue,
                 IF include2D THEN calculateCumulativeDistance(coords.items, FALSE)
                 ELSE NullValue,
                 IF include3D THEN calculateCumulativeDistance(coords.items, TRUE)
                 ELSE NullValue)

----------------------------------------------------------------------------
(* The distance calculator's methods, called on one pair or on one list *)

Step == Rat(1, 100000)

\* latitudes: three points of the meridian and a fourth 11 m away, null (which the
\* validator takes as 0), a latitude past the pole and values that are no finite number
EngineLatitudes ==
    {Zero, Step, RatNeg(Step), Rat(1, 10000), JsNull, RatAdd(Int2Num(90), Step), NaN,
     Infinity(1), Huge(-1)}
\* longitudes: the two names of the antimeridian, a longitude past it, NaN
EngineLongitudes == {Int2Num(180), Int2Num(-180), RatSub(Int2Num(-180), Step), NaN}
\* elevations in metres, missing and not finite
EngineElevations == {Zero, Int2Num(2), JsNull, JsUndefined, NaN, Infinity(1)}

PairCalls ==
    {<<lat1, lon1, elev1, lat2, lon2, elev2>> :
        lat1 \in EngineLatitudes, lon1 \in {Int2Num(180), NaN}, elev1 \in {Zero, JsNull, NaN},
        lat2 \in EngineLatitudes, lon2 \in EngineLongitudes, elev2 \in EngineElevations}

\* the coordinates of a list: points of the meridian with and without an elevation,
\* and a point outside the ranges
EnginePoints ==
    { AppCoordinate(Zero, Int2Num(180), Zero),
      AppCoordinate(Step, Int2Num(180), Int2Num(2)),
      AppCoordinate(RatNeg(Step), Int2Num(-180), JsNull),
      AppCoordinate(Step, Int2Num(-180), JsUndefined),
      AppCoordinate(Zero, Int2Num(180), Infinity(1)),
      AppCoordinate(Int2Num(95), Int2Num(200), Int2Num(2)) }

MaxPoints == 3

NoList == {[tag |-> "null", items |-> <<>>], [tag |-> "undefined", items |-> <<>>]}
EngineLists == {Array(items) : items \in UNION {SeqsOf(EnginePoints, n) : n \in 0..MaxPoints}}

EngineInit ==
    /\ \/ /\ pairArgs \in PairCalls
          /\ dcCoordinates = ArrayUnset /\ dcInclude = <<FALSE, FALSE>>
       \/ /\ pairArgs = NoPair
          /\ dcCoordinates \in EngineLists \cup NoList /\ dcInclude \in BOOLEAN \X BOOLEAN
    /\ pair2D = DistanceUnset /\ pair3D = DistanceUnset /\ dcResult = MatrixUnset
    /\ ParserIdle /\ ConverterIdle /\ AppIdle /\ DisplayIdle /\ StorageIdle

CallCalculate2DDistance ==
    /\ pairArgs # NoPair /\ pair2D = DistanceUnset
    /\ pair2D' = calculate2DDistance(pairArgs[1], pairArgs[2], pairArgs[4], pairArgs[5])
    /\ UNCHANGED <<pairArgs, pair3D, dcCoordinates, dcInclude, dcResult,
                   parserVars, converterVars, appVars, displayVars, wrapVars, storageVars>>

CallCalculate3DDistance ==
    /\ pairArgs # NoPair /\ pair3D = DistanceUnset
    /\ pair3D' = calculate3DDistance(pairArgs[1], pairArgs[2], pairArgs[3],
                                     pairArgs[4], pairArgs[5], pairArgs[6])
    /\ UNCHANGED <<pairArgs, pair2D, dcCoordinates, dcInclude, dcResult,
                   parserVars, converterVars, appVars, displayVars, wrapVars, storageVars>>

CallCalculateDistanceMatrix ==
    /\ dcCoordinates # ArrayUnset /\ dcResult = MatrixUnset
    /\ dcResult' = calculateDistanceMatrix(dcCoordinates, dcInclude[1], dcInclude[2])
    /\ UNCHANGED <<pairArgs, pair2D, pair3D, dcCoordinates, dcInclude,
                   parserVars, converterVars, appVars, displayVars, wrapVars, storageVars>>

EngineNext ==
    \/ CallCalculate2DDistance
    \/ CallCalculate3DDistance
    \/ CallCalculateDistanceMatrix

SpecEngine == EngineInit /\ [][EngineNext]_vars

----------------------------------------------------------------------------
(* Properties of the distance calculator *)

\* the range and finiteness conditions on a point: both numbers finite (null counting
\* as 0), the latitude in [-90, 90], the longitude in [-180, 180]
FiniteIn(x, bound) == IsNum(ToNum(x)) /\ Abs(ToNum(x).n) <= bound * ToNum(x).d
PassesValidator(lat, lon) == FiniteIn(lat, 90) /\ FiniteIn(lon, 180)
PointPasses(coord) == PassesValidator(coord.lat, coord.lon)

IsDistance(distance) ==
    /\ distance.tag = "distance"
    /\ IsNum(distance.km) /\ distance.km.n >= 0
    /\ IsNum(distance.miles) /\ distance.miles.n >= 0

\* the cells off the diagonal of a matrix of the result, none if the matrix is null
OffDiagonal(matrix) ==
    IF matrix.tag # "matrix" THEN {}
    ELSE {p \in (1..Len(matrix.cells)) \X (1..Len(matrix.cells)) : p[1] # p[2]}

NullExactlyWhenInvalid(matrix, coords) ==
    \A p \in OffDiagonal(matrix) :
        IF PointPasses(coords[p[1]]) /\ PointPasses(coords[p[2]])
        THEN IsDistance(matrix.cells[p[1]][p[2]])
        ELSE matrix.cells[p[1]][p[2]] = NullDistance

\* C11: calculate2DDistance returns null exactly when one of its two points fails the
\* range and finiteness conditions, and otherwise { km, miles } with km >= 0 and
\* miles >= 0; in the matrices of calculateDistanceMatrix the cell of a pair with such
\* a point is null, never a zero distance.
C11_NullExactlyForInvalidPoints ==
    /\ pair2D # DistanceUnset =>
          IF PassesValidator(pairArgs[1], pairArgs[2]) /\ PassesValidator(pairArgs[4], pairArgs[5])
          THEN IsDistance(pair2D)
          ELSE pair2D = NullDistance
    /\ dcResult.tag = "results" =>
          /\ NullExactlyWhenInvalid(dcResult.matrix2D, dcCoordinates.items)
          /\ NullExactlyWhenInvalid(dcResult.matrix3D, dcCoordinates.items)

\* a matrix of three points, the second outside the ranges: its cells with the second
\* point are null, the cell of the two others is a distance
C11_Witness ==
    /\ dcResult.tag = "results" /\ dcResult.matrix2D.tag = "matrix"
    /\ Len(dcCoordinates.items) = 3
    /\ PointPasses(dcCoordinates.items[1]) /\ ~PointPasses(dcCoordinates.items[2])
    /\ PointPasses(dcCoordinates.items[3])
    /\ dcResult.matrix2D.cells[1][2] = NullDistance
    /\ dcResult.matrix2D.cells[1][3].tag = "distance"
    /\ dcResult.matrix2D.cells[1][3].km.n > 0

\* the two cells of a pair agree: both null, or the same km and the same miles
SameDistance(d1, d2) ==
    \/ d1 = NullDistance /\ d2 = NullDistance
    \/ /\ d1.tag = "distance" /\ d2.tag = "distance"
       /\ d1.km = d2.km /\ d1.miles = d2.miles

Symmetric(matrix) ==
    matrix.tag = "matrix" =>
        \A i \in 1..Len(matrix.cells), j \in 1..Len(matrix.cells) :
            /\ SameDistance(matrix.cells[i][j], matrix.cells[j][i])
            /\ i = j => matrix.cells[i][j] = Distance(Zero, Zero)

\* C12: in matrix2D and in matrix3D the cells [i][j] and [j][i] are both null or hold
\* equal km and equal miles, and every diagonal cell is { km: 0, miles: 0 }.
C12_MatricesSymmetricZeroDiagonal ==
    dcResult.tag = "results" => Symmetric(dcResult.matrix2D) /\ Symmetric(dcResult.matrix3D)

\* both matrices of three points with different elevations, one of them outside the
\* ranges: a pair with a 3D distance above its 2D distance, and a pair of null cells
C12_Witness ==
    /\ dcResult.tag = "results"
    /\ dcResult.matrix2D.tag = "matrix" /\ dcResult.matrix3D.tag = "matrix"
    /\ Len(dcCoordinates.items) = 3
    /\ dcResult.matrix3D.cells[1][2].tag = "distance"
    /\ dcResult.matrix2D.cells[2][1].km.n > 0
    /\ dcResult.matrix3D.cells[2][1].km # dcResult.matrix2D.cells[2][1].km
    /\ dcResult.matrix3D.cells[3][1] = NullDistance
    /\ dcResult.matrix3D.cells[3][3] = Distance(Zero, Zero)

AllPass(coords) == \A k \in 1..Len(coords) : PointPasses(coords[k])

\* the number of unordered pairs of n points
UnorderedPairs(n) == (n * (n - 1)) \div 2

CountsEachPairOnce(statistics, n) ==
    statistics.tag = "statistics" => statistics.count = UnorderedPairs(n)

\* C13: the statistics are computed over one triangle of the matrix, each unordered
\* pair of points being one observation: for n valid coordinates count = n(n - 1) / 2.
C13_OneObservationPerUnorderedPair ==
    (dcResult.tag = "results" /\ AllPass(dcCoordinates.items)) =>
        /\ CountsEachPairOnce(dcResult.statistics2D, Len(dcCoordinates.items))
        /\ CountsEachPairOnce(dcResult.statistics3D, Len(dcCoordinates.items))

\* the km, in millionths, of the 2D distance from the i-th coordinate to the next;
\* a pair without a distance adds nothing
StepKm(coords, i) ==
    IF calculate2DDistance(coords[i].lat, coords[i].lon, coords[i + 1].lat, coords[i + 1].lon)
           = NullDistance
    THEN 0
    ELSE Millionths(calculate2DDistance(coords[i].lat, coords[i].lon,
                                        coords[i + 1].lat, coords[i + 1].lon).km)

RECURSIVE PathKm(_, _)
PathKm(coords, i) == IF i >= Len(coords) THEN 0 ELSE StepKm(coords, i) + PathKm(coords, i + 1)

\* C14: cumulative2D.totalKm is the sum, over the consecutive pairs of the list in
\* input order, of the km of calculate2DDistance, to six decimals; no other pair
\* contributes.
C14_CumulativeSumsConsecutivePairs ==
    (dcResult.tag = "results" /\ dcResult.cumulative2D.tag = "cumulative") =>
        /\ IsNum(dcResult.cumulative2D.totalKm)
        /\ 1000000 % dcResult.cumulative2D.totalKm.d = 0
        /\ Millionths(dcResult.cumulative2D.totalKm) = PathKm(dcCoordinates.items, 1)

\* three valid points, the third between the two others: steps of 2.224 m and 1.112 m
\* add up to 3.336 m, while the first and the third point are 1.112 m apart
C14_Witness ==
    /\ dcResult.tag = "results" /\ dcResult.cumulative2D.tag = "cumulative"
    /\ Len(dcCoordinates.items) = 3 /\ AllPass(dcCoordinates.items)
    /\ Len(dcResult.cumulative2D.segments) = 2
    /\ Millionths(dcResult.cumulative2D.totalKm) = 3336
    /\ Millionths(dcResult.matrix2D.cells[1][3].km) = 1112

\* an elevation that is missing (null, undefined) or not a finite number
NoElevation(elevation) == elevation.k \in {"null", "undefined", "nan", "inf"}

FallsBackDirectly ==
    (pair2D # DistanceUnset /\ pair3D # DistanceUnset
        /\ (NoElevation(pairArgs[3]) \/ NoElevation(pairArgs[6]))) => pair3D = pair2D

FallsBackIn(matrix2D, matrix3D, coords) ==
    \A p \in OffDiagonal(matrix2D) \cap OffDiagonal(matrix3D) :
        (NoElevation(coords[p[1]].elevation) \/ NoElevation(coords[p[2]].elevation))
            => matrix3D.cells[p[1]][p[2]] = matrix2D.cells[p[1]][p[2]]

\* C15: whenever the elevation of either point is missing or not finite, the 3D distance
\* of the pair, from calculate3DDistance directly and in matrix3D, is the 2D distance.
C15_MissingElevationFallsBackTo2D ==
    /\ FallsBackDirectly
    /\ dcResult.tag = "results" =>
          FallsBackIn(dcResult.matrix2D, dcResult.matrix3D, dcCoordinates.items)

Present(entry) == entry # NullValue

\* the three entries of one kind are present exactly if the kind was asked for
ExactlyIfRequested(include, matrix, statistics, cumulative) ==
    /\ Present(matrix) <=> include
    /\ Present(statistics) <=> include
    /\ Present(cumulative) <=> include

\* C16: calculateDistanceMatrix returns null for no list and for fewer than 2
\* coordinates; for 2 or more it returns a result whose matrix, statistics and
\* cumulative entries are present for exactly the kinds asked for by include2D and
\* include3D, and null for a kind not asked for.
C16_EntriesExactlyForRequestedKinds ==
    dcResult # MatrixUnset =>
        IF dcCoordinates.tag = "array" /\ Len(dcCoordinates.items) >= 2
        THEN /\ dcResult.tag = "results"
             /\ ExactlyIfRequested(dcInclude[1], dcResult.matrix2D, dcResult.statistics2D,
                                   dcResult.cumulative2D)
             /\ ExactlyIfRequested(dcInclude[2], dcResult.matrix3D, dcResult.statistics3D,
                                   dcResult.cumulative3D)
        ELSE dcResult = NullValue

----------------------------------------------------------------------------
(* The display of a distance: the unit formatters and the survey assessments  *)
(* of the application (script.js) and of the report generator, which holds    *)
(* its own copies of them                                                     *)

\* floor(10^f * (whole + rem / d)) and what is left of the fraction
RECURSIVE Expand(_, _, _, _)
Expand(whole, rem, d, f) ==
    IF f = 0 THEN <<whole, rem>>
    ELSE Expand(10 * whole + (10 * rem) \div d, (10 * rem) % d, d, f - 1)

HalfUp(expanded, d) == IF 2 * expanded[2] >= d THEN expanded[1] + 1 ELSE expanded[1]

\* parseFloat(x.toFixed(f)) of x >= 0
FixedTo(x, f) == Rat(HalfUp(Expand(x.n \div x.d, x.n % x.d, x.d, f), x.d), Pow10(f))

\* a { value, unit } object
Formatted(value, unit) == [tag |-> "formatted", value |-> value, unit |-> unit]

\* the branches of formatInMeters
Metric(kmValue, meters, centimeters, millimeters) ==
    IF JsGreaterEq(millimeters, Rat(1, 10)) /\ JsLess(millimeters, Int2Num(10))
    THEN Formatted(FixedTo(millimeters, 3), "mm")
    ELSE IF JsGreaterEq(millimeters, Int2Num(10)) /\ JsLess(millimeters, Int2Num(1000))
         THEN Formatted(FixedTo(RatDivInt(millimeters, 10), 4), "cm")
    ELSE IF JsGreaterEq(centimeters, Int2Num(100)) /\ JsLess(centimeters, Int2Num(10000))
         THEN Formatted(FixedTo(RatDivInt(centimeters, 100), 3), "m")
    ELSE IF JsGreaterEq(meters, Rat(1, 1000)) /\ JsLess(meters, Int2Num(1000))
         THEN IF JsLess(meters, Int2Num(1))
              THEN Formatted(FixedTo(meters, 6), "m")
              ELSE Formatted(FixedTo(meters, 3), "m")
    ELSE Formatted(FixedTo(kmValue, 6), "km")

MetricOfMeters(kmValue, meters) ==
    Metric(kmValue, meters, RatMul(meters, Int2Num(100)), RatMul(meters, Int2Num(1000)))

\* formatInMeters(kmValue)
formatInMeters(kmValue) == MetricOfMeters(kmValue, RatMul(kmValue, Int2Num(1000)))

\* the branches of formatInFeet and of formatInSurveyFeet
Imperial(feet, inches, miles) ==
    IF JsGreaterEq(inches, Rat(1, 10)) /\ JsLess(inches, Int2Num(12))
    THEN Formatted(FixedTo(inches, 3), "in")
    ELSE IF JsGreaterEq(feet, Int2Num(1)) /\ JsLess(feet, Int2Num(5280))
         THEN Formatted(FixedTo(feet, 3), "ft")
    ELSE Formatted(FixedTo(miles, 6), "mi")

ImperialOfFeet(feet) == Imperial(feet, RatMul(feet, Int2Num(12)), RatMul(feet, Rat(1, 5280)))

\* formatInFeet(kmValue): meters / 0.3048
formatInFeet(kmValue) ==
    ImperialOfFeet(RatMul(RatMul(kmValue, Int2Num(1000)), Inverse(MetersPer("feet"))))

\* formatInSurveyFeet(kmValue): meters / 0.30480061
formatInSurveyFeet(kmValue) ==
    ImperialOfFeet(RatMul(RatMul(kmValue, Int2Num(1000)), Inverse(MetersPer("survey-feet"))))

\* getDefaultUnit(unitSystem)
getDefaultUnit(unitSystem) == IF unitSystem \in {"feet", "survey-feet"} THEN "ft" ELSE "m"

\* the switch of the two formatters
InSystem(kmValue, unitSystem) ==
    CASE unitSystem = "feet" -> formatInFeet(kmValue)
      [] unitSystem = "survey-feet" -> formatInSurveyFeet(kmValue)
      [] OTHER -> formatInMeters(kmValue)

\* GPSCalculatorApp.formatDistanceWithDynamicUnits(kmValue, unitSystem = 'meters')
formatDistanceWithDynamicUnits(kmValue, unitSystem) ==
    IF JsIsNaN(kmValue) \/ ~JsIsFinite(kmValue) \/ JsLess(kmValue, Zero)
    THEN Formatted(Zero, getDefaultUnit(IF unitSystem = "undefined" THEN "meters" ELSE unitSystem))
    ELSE InSystem(kmValue, IF unitSystem = "undefined" THEN "meters" ELSE unitSystem)

\* formatDistanceWithUnits with 'm' as the unit of every invalid value
formatDistanceWithUnitsMetricDefault(kmValue, unitSystem) ==
    IF JsIsNaN(kmValue) \/ ~JsIsFinite(kmValue) \/ JsLess(kmValue, Zero)
    THEN Formatted(Zero, "m")
    ELSE InSystem(kmValue, unitSystem)

\* ReportGenerator.formatDistanceWithUnits(kmValue, unitSystem)
formatDistanceWithUnits(kmValue, unitSystem) ==
    IF JsIsNaN(kmValue) \/ ~JsIsFinite(kmValue) \/ JsLess(kmValue, Zero)
    THEN Formatted(Zero, getDefaultUnit(unitSystem))
    ELSE InSystem(kmValue, unitSystem)

\* a length in metres as a whole number of tenths of a millimetre
Tenths(x) == Floor(RatMul(x, Int2Num(10000)))

\* horizontal * horizontal + vertical * vertical, in squared tenths of a millimetre;
\* -1 stands for NaN
SquareSum(horizontal, vertical) ==
    IF IsNum(horizontal) /\ IsNum(vertical)
    THEN Tenths(horizontal) * Tenths(horizontal) + Tenths(vertical) * Tenths(vertical)
    ELSE -1

\* total < limit for total = Math.sqrt(sum) and a limit in tenths of a millimetre
Below(sum, limit) == sum >= 0 /\ sum < limit * limit

\* the branches of getDistanceAssessment (the dash of the texts is written --)
Assessment(sum) ==
    IF Below(sum, 10)
    THEN "Exceptional precision -- sub-millimeter accuracy (First Order Survey)"
    ELSE IF Below(sum, 30) THEN "Excellent precision -- sub-3mm accuracy (First Order Survey)"
    ELSE IF Below(sum, 100) THEN "High precision -- sub-1cm accuracy (Second Order Class I)"
    ELSE IF Below(sum, 300) THEN "Good precision -- sub-3cm accuracy (Second Order Class II)"
    ELSE IF Below(sum, 1000) THEN "Acceptable precision -- sub-10cm accuracy (Third Order)"
    ELSE IF Below(sum, 3000) THEN "Moderate precision -- sub-30cm accuracy (Third Order)"
    ELSE IF Below(sum, 10000) THEN "Low precision -- sub-1m accuracy (Fourth Order)"
    ELSE "Poor precision -- 1m+ accuracy (Below survey standards)"

\* GPSCalculatorApp.getDistanceAssessment(horizontal, vertical)
getDistanceAssessment(horizontal, vertical) == Assessment(SquareSum(horizontal, vertical))

\* ReportGenerator.getDistanceAssessment(horizontal, vertical)
reportGetDistanceAssessment(horizontal, vertical) == Assessment(SquareSum(horizontal, vertical))

\* surveyGrade and recommendation of getConclusionText
SurveyGrade(sum) ==
    IF Below(sum, 10)
    THEN <<"First Order Survey Quality",
           "Suitable for high-precision engineering and geodetic control">>
    ELSE IF Below(sum, 30)
         THEN <<"First Order Survey Quality", "Excellent for precise engineering surveys">>
    ELSE IF Below(sum, 100)
         THEN <<"Second Order Class I Quality",
                "Good for most engineering and construction surveys">>
    ELSE IF Below(sum, 300)
         THEN <<"Second Order Class II Quality",
                "Acceptable for general construction and mapping">>
    ELSE IF Below(sum, 1000)
         THEN <<"Third Order Quality",
                "Suitable for general mapping and lower-precision surveys">>
    ELSE IF Below(sum, 3000) THEN <<"Third Order Quality", "Basic mapping accuracy">>
    ELSE IF Below(sum, 10000) THEN <<"Fourth Order Quality", "Rough mapping only">>
    ELSE <<"Below Survey Standards", "Not suitable for surveying applications">>

\* x / 1000 for a number x
PerThousand(x) == IF IsNum(x) THEN RatDivInt(x, 1000) ELSE NaN

\* Math.sqrt(sum) in metres, sum being a square
Total(sum) == IF sum < 0 THEN NaN ELSE Rat(SqrtBetween(sum, 0, 46340), 10000)

\* the parts of the text getConclusionText returns
Conclusion(grade, totalFormatted, horizontalFormatted, verticalFormatted) ==
    [tag |-> "conclusion", surveyGrade |-> grade[1], recommendation |-> grade[2],
     total |-> totalFormatted, horizontal |-> horizontalFormatted,
     vertical |-> verticalFormatted]

\* GPSCalculatorApp.getConclusionText(horizontal, vertical, point1, point2)
getConclusionText(horizontal, vertical) ==
    Conclusion(SurveyGrade(SquareSum(horizontal, vertical)),
               formatDistanceWithDynamicUnits(PerThousand(Total(SquareSum(horizontal, vertical))),
                                              "undefined"),
               formatDistanceWithDynamicUnits(PerThousand(horizontal), "undefined"),
               formatDistanceWithDynamicUnits(PerThousand(vertical), "undefined"))

----------------------------------------------------------------------------
(* The formatters and the assessments, called on one value *)

\* distances in km: not a number, infinite, negative, zero, 0.001 mm, 0.05 mm, 0.2 mm,
\* 0.5 mm, 1 mm, 3 mm, 5 cm, 0.5 m, 2 m, 500 m, 2 km
MetricValues ==
    {NaN, Infinity(1), Int2Num(-1), Zero, Rat(1, 1000000000), Rat(5, 100000000),
     Rat(2, 10000000), Rat(5, 10000000), Rat(1, 1000000), Rat(3, 1000000),
     Rat(5, 100000), Rat(5, 10000), Rat(2, 1000), Rat(1, 2), Int2Num(2)}
\* distances shown in feet: not a number, infinite, 1 mm, 30 cm, 0.5 m, 2 km
FeetValues == {NaN, Infinity(-1), Rat(1, 1000000), Rat(3, 10000), Rat(5, 10000), Int2Num(2)}
SurveyFeetValues == {Int2Num(-1), Rat(1, 1000000), Rat(3, 10000), Rat(5, 10000)}

FormatCalls ==
    (MetricValues \X {"meters", "undefined", "nautical"})
    \cup (FeetValues \X {"feet"}) \cup (SurveyFeetValues \X {"survey-feet"})

\* offsets in metres: one of the two zero, or the sides of a 3-4-5 triangle, so that
\* the total is a rational
Lengths ==
    {Zero, Rat(5, 10000), Rat(1, 1000), Rat(2, 1000), Rat(3, 1000), Rat(5, 1000),
     Rat(1, 100), Rat(2, 100), Rat(3, 100), Rat(5, 100), Rat(1, 10), Rat(2, 10),
     Rat(3, 10), Rat(1, 2), Int2Num(1), Rat(3, 2)}
Triangles ==
    {<<Rat(3, 10000), Rat(4, 10000)>>, <<Rat(4, 1000), Rat(3, 1000)>>,
     <<Rat(3, 10), Rat(4, 10)>>, <<Rat(9, 10), Rat(12, 10)>>}
OffsetCalls ==
    {<<x, Zero>> : x \in Lengths} \cup {<<Zero, x>> : x \in Lengths} \cup Triangles
    \cup {<<NaN, Zero>>}

DisplayInit ==
    /\ \/ fmtArgs \in FormatCalls /\ offsets = NoOffsets
       \/ fmtArgs = NoFormat /\ offsets \in OffsetCalls
    /\ fmtResult = FormatUnset /\ fmtReport = FormatUnset
    /\ assessment = "" /\ conclusion = ConclusionUnset /\ reportAssessment = ""
    /\ ParserIdle /\ ConverterIdle /\ AppIdle /\ EngineIdle /\ StorageIdle

CallFormatDistanceWithDynamicUnits ==
    /\ fmtArgs # NoFormat /\ fmtResult = FormatUnset
    /\ fmtResult' = formatDistanceWithDynamicUnits(fmtArgs[1], fmtArgs[2])
    /\ UNCHANGED <<fmtArgs, fmtReport, offsets, assessment, conclusion, reportAssessment,
                   parserVars, converterVars, appVars, engineVars, wrapVars, storageVars>>

CallFormatDistanceWithUnits ==
    /\ fmtArgs # NoFormat /\ fmtReport = FormatUnset
    /\ fmtReport' = formatDistanceWithUnits(fmtArgs[1], fmtArgs[2])
    /\ UNCHANGED <<fmtArgs, fmtResult, offsets, assessment, conclusion, reportAssessment,
                   parserVars, converterVars, appVars, engineVars, wrapVars, storageVars>>

CallGetDistanceAssessment ==
    /\ offsets # NoOffsets /\ assessment = ""
    /\ assessment' = getDistanceAssessment(offsets[1], offsets[2])
    /\ UNCHANGED <<fmtArgs, fmtResult, fmtReport, offsets, conclusion, reportAssessment,
                   parserVars, converterVars, appVars, engineVars, wrapVars, storageVars>>

CallGetConclusionText ==
    /\ offsets # NoOffsets /\ conclusion = ConclusionUnset
    /\ conclusion' = getConclusionText(offsets[1], offsets[2])
    /\ UNCHANGED <<fmtArgs, fmtResult, fmtReport, offsets, assessment, reportAssessment,
                   parserVars, converterVars, appVars, engineVars, wrapVars, storageVars>>

CallReportGetDistanceAssessment ==
    /\ offsets # NoOffsets /\ reportAssessment = ""
    /\ reportAssessment' = reportGetDistanceAssessment(offsets[1], offsets[2])
    /\ UNCHANGED <<fmtArgs, fmtResult, fmtReport, offsets, assessment, conclusion,
                   parserVars, converterVars, appVars, engineVars, wrapVars, storageVars>>

DisplayNext ==
    \/ CallFormatDistanceWithDynamicUnits
    \/ CallFormatDistanceWithUnits
    \/ CallGetDistanceAssessment
    \/ CallGetConclusionText
    \/ CallReportGetDistanceAssessment

SpecDisplay == DisplayInit /\ [][DisplayNext]_vars

----------------------------------------------------------------------------
(* Properties of the display *)

\* C17: formatDistanceWithDynamicUnits(0.0005, "meters") returns
\* { value: 0.5, unit: "mm" }, and so does the report's copy of the formatter.
C17_HalfThousandthKmIsHalfMillimetre ==
    fmtArgs = <<Rat(5, 10000), "meters">> =>
        /\ fmtResult # FormatUnset => fmtResult = Formatted(Rat(1, 2), "mm")
        /\ fmtReport # FormatUnset => fmtReport = Formatted(Rat(1, 2), "mm")

\* C18: in the meters system every distance of at least 0.001 mm (1e-9 km) is shown
\* with a value that is not 0.
C18_SmallDistancesShownNonZero ==
    (fmtResult # FormatUnset /\ fmtArgs[2] \in {"meters", "undefined"}
        /\ IsNum(fmtArgs[1]) /\ JsGreaterEq(fmtArgs[1], Rat(1, 1000000000)))
    => fmtResult.value # Zero

\* the grade a returned text names
GradeNamed(text) ==
    CASE text \in {"Exceptional precision -- sub-millimeter accuracy (First Order Survey)",
                   "Excellent precision -- sub-3mm accuracy (First Order Survey)",
                   "First Order Survey Quality"} -> "First Order"
      [] text \in {"High precision -- sub-1cm accuracy (Second Order Class I)",
                   "Second Order Class I Quality"} -> "Second Order Class I"
      [] text \in {"Good precision -- sub-3cm accuracy (Second Order Class II)",
                   "Second Order Class II Quality"} -> "Second Order Class II"
      [] text \in {"Acceptable precision -- sub-10cm accuracy (Third Order)",
                   "Moderate precision -- sub-30cm accuracy (Third Order)",
                   "Third Order Quality"} -> "Third Order"
      [] text \in {"Low precision -- sub-1m accuracy (Fourth Order)",
                   "Fourth Order Quality"} -> "Fourth Order"
      [] OTHER -> "Below Survey Standards"

\* the grades of the published table for a total offset, given as the square of its
\* tenths of a millimetre; an offset on the edge of two ranges has the grade of either
TableGrades(sum) ==
    {grade \in {"First Order", "Second Order Class I", "Second Order Class II",
                "Third Order", "Fourth Order"} :
        CASE grade = "First Order" -> sum <= 30 * 30
          [] grade = "Second Order Class I" -> 30 * 30 <= sum /\ sum <= 100 * 100
          [] grade = "Second Order Class II" -> 100 * 100 <= sum /\ sum <= 300 * 300
          [] grade = "Third Order" -> 300 * 300 <= sum /\ sum <= 10000 * 10000
          [] OTHER -> 10000 * 10000 <= sum}

GradedByTable ==
    (assessment # "" /\ SquareSum(offsets[1], offsets[2]) >= 0) =>
        GradeNamed(assessment) \in TableGrades(SquareSum(offsets[1], offsets[2]))

SameGradeEverywhere ==
    /\ (assessment # "" /\ conclusion # ConclusionUnset) =>
          GradeNamed(conclusion.surveyGrade) = GradeNamed(assessment)
    /\ (assessment # "" /\ reportAssessment # "") => reportAssessment = assessment

\* C19: getDistanceAssessment grades the total offset t by the published table (First
\* Order up to 3 mm, Second Order Class I 3 mm - 10 mm, Second Order Class II
\* 10 mm - 30 mm, Third Order 30 mm - 1 m, Fourth Order from 1 m), and getConclusionText
\* and the report generator give the same grade for every t.
C19_GradesFollowPublishedTable == GradedByTable /\ SameGradeEverywhere

----------------------------------------------------------------------------
(* The number of points the application takes *)

\* k valid lines in the textarea
Pasted(k) == pasteText = JoinWith(NorthwardLines(k), <<"nl">>)

\* handleParseCoordinates has taken the k lines and this.coordinates still holds them
ParsedAll(k) ==
    /\ message = "Successfully parsed" /\ Len(coordinates) = k
    /\ \A i \in 1..k : coordinates[i].lat = Int2Num(i)

\* C20: for every k with 2 <= k <= 8, handleParseCoordinates on k valid lines leaves
\* exactly k rows and k entries of this.coordinates, and a handleDistanceCalculation
\* that follows hands all k points to the distance calculator; only more than 8 lines
\* are refused.
C20_UpToEightPointsAccepted ==
    [][\A k \in 2..(maxCoordinates + 1) :
          /\ (Pasted(k) /\ ClickParse) =>
                IF k > maxCoordinates THEN message' = "Too many coordinates"
                ELSE /\ message' = "Successfully parsed"
                     /\ Len(rows') = k /\ Len(coordinates') = k
          /\ (Pasted(k) /\ k <= maxCoordinates /\ ParsedAll(k) /\ ClickCalculate) =>
                \/ message' = "Please select at least one distance type"
                \/ message' \in {"results", Uncaught} /\ Len(matrixArgs') = k]_vars

----------------------------------------------------------------------------
(* detectFormat against parseCoordinate *)

DmsNotations == {"dmsSpaceSeparated", "dmsWithCardinal", "dmsWithSymbols"}

\* the notation whose pattern parseCoordinate matches first
FirstMatched(text) == NotationOrder[SetMin(Matching(text))]

\* C22: detectFormat returns 'unknown' exactly when parseCoordinate returns null on the
\* same input, 'dms' exactly when the first pattern parseCoordinate matches is one of
\* the three DMS patterns, and 'decimal' otherwise.
C22_DetectFormatAgreesWithParse ==
    (format # "unset" /\ parsed # Unset) =>
        /\ format \in {"unknown", "dms", "decimal"}
        /\ format = "unknown" <=> parsed = Null
        /\ format = "dms" <=>
              (parsed.tag = "coord" /\ FirstMatched(Trim(input.s)) \in DmsNotations)

\* C22's case: text that a DMS pattern and a decimal pattern both match, on which both
\* methods have been called
C22_Witness ==
    /\ format = "dms" /\ parsed.tag = "coord"
    /\ \E k \in Matching(Trim(input.s)) : NotationOrder[k] \notin DmsNotations

\* a line of more than 3 parts none of whose windows of 6 or of 2 parts is accepted
NoWindowAccepted(parts) ==
    /\ Len(parts) > 3
    /\ Accepted(parts, 6) = {} /\ Accepted(parts, 2) = {}

\* C29: for a line of more than 3 parts in which parseCoordinate accepts no window of 6
\* and no window of 2 parts, parseCoordinateWithElevation returns null: the fallback to
\* the first two parts yields no coordinate.
C29_FallbackYieldsNoCoordinate ==
    (withElev # Unset /\ NoWindowAccepted(Parts(input.s))) => withElev = Null

\* C29's case: such a line on which parseCoordinateWithElevation has been called
C29_Witness ==
    /\ withElev # Unset /\ origin.kind = "tokens"
    /\ Len(origin.tokens) > 3 /\ NoWindowAccepted(Parts(input.s))

----------------------------------------------------------------------------
(* validateAndNormalize, one statement at a time                           *)
(*                                                                         *)
(* wrapPc is the statement the call stands at: "guard" (the test of the    *)
(* arguments), "down" and "up" (the two while loops), "latitude" (the test *)
(* of the latitude) and "returned".  One pass of a loop body is one step.  *)
(* A single-threaded caller runs the call without interruption, so a step  *)
(* that can be taken is taken: weak fairness of the steps.                 *)

WrapInit ==
    /\ cvValue = JsUndefined /\ cvCardinal = FALSE /\ cvPair = NoArgs
    /\ vnArgs \in Latitudes \X Longitudes
    /\ cvDms = DmsUnset /\ cvBack = JsUndefined /\ cvText = TextUnset /\ vnResult = Unset
    /\ wrapPc = "guard" /\ wrapLon = JsUndefined
    /\ ParserIdle /\ AppIdle /\ EngineIdle /\ DisplayIdle /\ StorageIdle

WrapUnchanged ==
    UNCHANGED <<cvValue, cvCardinal, cvDms, cvBack, cvPair, cvText, vnArgs,
                parserVars, appVars, engineVars, displayVars, storageVars>>

\* if (isNaN(lat) || isNaN(lon) || !isFinite(lat) || !isFinite(lon)) return null;
\* let normalizedLon = lon
WrapGuard ==
    /\ wrapPc = "guard"
    /\ IF \/ JsIsNaN(vnArgs[1]) \/ JsIsNaN(vnArgs[2])
          \/ ~JsIsFinite(vnArgs[1]) \/ ~JsIsFinite(vnArgs[2])
       THEN wrapPc' = "returned" /\ vnResult' = Null /\ wrapLon' = wrapLon
       ELSE wrapPc' = "down" /\ vnResult' = vnResult /\ wrapLon' = ToNum(vnArgs[2])
    /\ WrapUnchanged

\* one pass of while (normalizedLon > 180) normalizedLon -= 360
WrapDownStep ==
    /\ wrapPc = "down" /\ JsGreater(wrapLon, Int2Num(180))
    /\ wrapLon' = JsAddRat(wrapLon, Int2Num(-360))
    /\ UNCHANGED <<wrapPc, vnResult>>
    /\ WrapUnchanged

WrapDownExit ==
    /\ wrapPc = "down" /\ ~JsGreater(wrapLon, Int2Num(180))
    /\ wrapPc' = "up"
    /\ UNCHANGED <<wrapLon, vnResult>>
    /\ WrapUnchanged

\* one pass of while (normalizedLon < -180) normalizedLon += 360
WrapUpStep ==
    /\ wrapPc = "up" /\ JsLess(wrapLon, Int2Num(-180))
    /\ wrapLon' = JsAddRat(wrapLon, Int2Num(360))
    /\ UNCHANGED <<wrapPc, vnResult>>
    /\ WrapUnchanged

WrapUpExit ==
    /\ wrapPc = "up" /\ ~JsLess(wrapLon, Int2Num(-180))
    /\ wrapPc' = "latitude"
    /\ UNCHANGED <<wrapLon, vnResult>>
    /\ WrapUnchanged

\* if (lat < -90 || lat > 90) return null; return { lat: lat, lon: normalizedLon }
WrapReturn ==
    /\ wrapPc = "latitude"
    /\ wrapPc' = "returned"
    /\ vnResult' = IF JsLess(vnArgs[1], Int2Num(-90)) \/ JsGreater(vnArgs[1], Int2Num(90))
                   THEN Null ELSE LatLon(vnArgs[1], wrapLon)
    /\ UNCHANGED wrapLon
    /\ WrapUnchanged

WrapNext ==
    \/ WrapGuard
    \/ WrapDownStep
    \/ WrapDownExit
    \/ WrapUpStep
    \/ WrapUpExit
    \/ WrapReturn

SpecWrap == WrapInit /\ [][WrapNext]_vars /\ WF_vars(WrapNext)

\* C27: every call of validateAndNormalize on finite numbers, longitudes of very large
\* magnitude included, returns: its two wrapping loops are left.
C27_ValidateAndNormalizeReturns ==
    (JsIsFinite(vnArgs[1]) /\ JsIsFinite(vnArgs[2])) ~> (wrapPc = "returned")

----------------------------------------------------------------------------
(* The two copies of the distance formatter *)

\* a value the formatters take as invalid
InvalidDistance(kmValue) ==
    JsIsNaN(kmValue) \/ ~JsIsFinite(kmValue) \/ JsLess(kmValue, Zero)

----------------------------------------------------------------------------
(* The 3D distance against the 2D distance *)

\* both elevations are finite numbers
FiniteElevations == IsNum(pairArgs[3]) /\ IsNum(pairArgs[6])

\* C28: for two valid points whose elevations are finite and equal, calculate3DDistance
\* returns the km and the miles of calculate2DDistance; for finite elevations its km and
\* its miles are never smaller than those of calculate2DDistance.
C28_ThreeDNeverBelowTwoD ==
    (IsDistance(pair2D) /\ IsDistance(pair3D) /\ FiniteElevations) =>
        /\ pairArgs[3] = pairArgs[6] => pair3D.km = pair2D.km /\ pair3D.miles = pair2D.miles
        /\ Millionths(pair3D.km) >= Millionths(pair2D.km)
        /\ Millionths(pair3D.miles) >= Millionths(pair2D.miles)

----------------------------------------------------------------------------
(* Zero coordinates in the manual-entry rows *)

\* the messages handleDistanceCalculation leaves: this.coordinates is then what
\* updateCoordinatesFromManual read from the rows
AfterCalculation ==
    message \in {"results", Uncaught, "At least 2 valid coordinates are required",
                 "Please select at least one distance type"}

\* a row holding two finite numbers, one of them exactly 0
ZeroRow(row) ==
    /\ IsNum(ParseFloat(row.lat)) /\ IsNum(ParseFloat(row.lon))
    /\ ParseFloat(row.lat) = Zero \/ ParseFloat(row.lon) = Zero

\* C26: a row whose latitude or longitude is exactly 0 is stored by
\* updateCoordinatesFromManual with the numeric 0, not null, and the point is among
\* those handleDistanceCalculation hands to the calculation.
C26_ZeroCoordinateKept ==
    AfterCalculation =>
        \A k \in 1..Len(rows) :
            ZeroRow(rows[k]) =>
                /\ coordinates[k].lat = ParseFloat(rows[k].lat)
                /\ coordinates[k].lon = ParseFloat(rows[k].lon)
                /\ message \in {"results", Uncaught} =>
                       \E j \in 1..Len(matrixArgs) : matrixArgs[j] = coordinates[k]

----------------------------------------------------------------------------
(* Blank elevations in the calculation *)

ValidPoints == SelectSeq(coordinates, IsValidPoint)

\* handleDistanceCalculation has handed two or more valid points, one of them with a
\* blank elevation, to the calculation
BlankElevationCalculated ==
    /\ message \in {"results", Uncaught}
    /\ matrixArgs = ValidPoints /\ Len(matrixArgs) >= 2
    /\ \E k \in 1..Len(matrixArgs) : matrixArgs[k].elevation = JsNull

\* C21: with two or more valid points, some of them with a blank (null) elevation,
\* handleDistanceCalculation throws nothing and displays the results, in the detailed
\* and in the condensed output mode.
C21_BlankElevationDisplayed == BlankElevationCalculated => message = "results"

----------------------------------------------------------------------------
(* The storage manager (storage-manager.js) and the sharing server it posts to *)

maxLocalItems == 50

\* the IDs generateShareId can draw, YYYY-NNNN-XXXX, on the client and on the server
ShareId(randomNum, randomLetters) ==
    [year |-> 2026, randomNum |-> randomNum, randomLetters |-> randomLetters]
ShareIds == {ShareId(1, "AAAA"), ShareId(2, "BBBB")}

\* 'local_' + Date.now() + '_' + Math.random().toString(36).substr(2, 9)
generateLocalId(t, random) == [prefix |-> "local_", t |-> t, random |-> random]

\* the milliseconds of an expiration period
Milliseconds(period) ==
    CASE period = "1hr" -> 3600000
      [] period = "24hr" -> 86400000
      [] period = "3days" -> 259200000
      [] period = "7days" -> 604800000
      [] period = "14days" -> 1209600000

Periods == {"1hr", "24hr", "3days", "7days", "14days"}

\* getExpirationTime(period) at the time t: periods[period] || periods['24hr']
getExpirationTime(period, t) ==
    t + (IF period \in Periods THEN Milliseconds(period) ELSE Milliseconds("24hr"))

\* the calculationData object of saveCalculation
CalculationData(shareId, localId, calculation, t, expiration, share) ==
    [id |-> IF share THEN shareId ELSE localId,
     data |-> calculation,
     timestamp |-> t,
     expiration |-> getExpirationTime(expiration, t),
     shared |-> share,
     shareId |-> IF share THEN shareId ELSE JsNull]

\* the place of existing[i] after existing.sort((a, b) => b.timestamp - a.timestamp):
\* behind the later entries and, the sort being stable, behind the earlier entries
\* of the same timestamp
Place(existing, i) ==
    1 + Cardinality({j \in 1..Len(existing) :
                        \/ existing[j].timestamp > existing[i].timestamp
                        \/ existing[j].timestamp = existing[i].timestamp /\ j < i})

Arranged(existing, places) ==
    [p \in 1..Len(existing) |-> existing[CHOOSE i \in 1..Len(existing) : places[i] = p]]

NewestFirst(existing) ==
    Arranged(existing, SubSeq([i \in 1..Len(existing) |-> Place(existing, i)],
                              1, Len(existing)))

\* existing.splice(maxLocalItems) on the sorted array
Spliced(existing) == SubSeq(existing, 1, maxLocalItems)

\* what saveToLocalStorage writes: existing.push(calculationData), then the cut
Kept(existing) ==
    IF Len(existing) > maxLocalItems THEN Spliced(NewestFirst(existing)) ELSE existing

saveToLocalStorage(existing, calculationData) == Kept(Append(existing, calculationData))

\* an entry never taken as expired
isExpiredNever(calculation, t) == FALSE

\* isExpired(calculation) at the time t
isExpired(calculation, t) == t > calculation.expiration

\* cleanupExpired: the calculations that have not expired; written back only when
\* some were dropped, which leaves the same array
cleanupExpired(calculations, t) ==
    SelectSeq(calculations, LAMBDA calc : ~isExpired(calc, t))

\* deleteCalculation(id)
deleteCalculation(calculations, id) ==
    SelectSeq(calculations, LAMBDA calc : calc.id # id)

\* saveToServer: the period it posts, found back from the expiration timestamp
expirationPeriod(expirationMs) ==
    IF expirationMs <= Milliseconds("1hr") THEN "1hr"
    ELSE IF expirationMs <= Milliseconds("24hr") THEN "24hr"
    ELSE IF expirationMs <= Milliseconds("3days") THEN "3days"
    ELSE IF expirationMs <= Milliseconds("7days") THEN "7days"
    ELSE "14days"

\* the body of the POST: the data and the period, no ID
PostBody(calculationData, t) ==
    [data |-> calculationData.data,
     expirationPeriod |-> expirationPeriod(calculationData.expiration - t)]

\* the answers of the server: a status and a body, status 0 standing for a fetch
\* that is rejected (the network is down)
Response(status, body) == [status |-> status, body |-> body]
NoBody == [error |-> "error"]
Failures == {Response(500, NoBody), Response(0, NoBody)}
Ok(response) == response.status >= 200 /\ response.status <= 299

\* the server's POST /api/share: generateUniqueShareId draws an ID no stored
\* calculation has, the row is inserted under it and the ID is sent back
Unused(db) == ShareIds \ {row.shareId : row \in db}
PostResponses(db) ==
    {Response(201, [shareId |-> shareId]) : shareId \in Unused(db)} \cup Failures

Inserted(db, body, response, t) ==
    IF Ok(response)
    THEN db \cup {[shareId |-> response.body.shareId, data |-> body.data,
                   expires |-> t + Milliseconds(body.expirationPeriod)]}
    ELSE db

\* saveToServer(calculationData): what it returns, an error being caught inside
saveToServer(response) ==
    IF Ok(response) THEN [success |-> TRUE, shareId |-> response.body.shareId]
    ELSE [success |-> FALSE, shareId |-> JsNull]

\* saveCalculation(calculation, expiration, share): its return value; the result of
\* saveToServer is awaited and dropped
saveCalculation(calculationData, share, posted) ==
    IF share THEN calculationData.shareId ELSE JsNull

\* the server's GET /api/share/:id at the time t: 404 for an ID it does not hold,
\* 410 for a calculation past its expiry, the data otherwise
Held(db, shareId) == {row \in db : row.shareId = shareId}
Answer(db, shareId, t) ==
    IF Held(db, shareId) = {} THEN Response(404, NoBody)
    ELSE IF \E row \in Held(db, shareId) : t > row.expires THEN Response(410, NoBody)
    ELSE Response(200, [data |-> (CHOOSE row \in Held(db, shareId) : TRUE).data])

GetResponses(db, shareId, t) == {Answer(db, shareId, t)} \cup Failures

\* a value returned, an error thrown
Return(value) == [tag |-> "return", value |-> value]
Throw(error) == [tag |-> "throw", value |-> error]

\* the try block of fetchFromServer
Fetching(response) ==
    IF response.status = 0 THEN Throw("Failed to fetch")
    ELSE IF response.status = 404 THEN Return(JsNull)
    ELSE IF response.status = 410 THEN Throw("Calculation has expired")
    ELSE IF ~Ok(response) THEN Throw("HTTP error!")
    ELSE Return(response.body.data)

\* fetchFromServer(shareId): its catch block returns null
fetchFromServer(response) ==
    IF Fetching(response).tag = "throw" THEN Return(JsNull) ELSE Fetching(response)

\* calculations.find(calc => calc.shareId === shareId): the first such entry
LocalCalc(calculations, shareId) ==
    SelectSeq(calculations, LAMBDA calc : calc.shareId = shareId)

\* getSharedCalculation after the look into local storage
FromServer(fetching, shareId) ==
    IF fetching.tag = "throw" THEN Return(JsNull)
    ELSE IF fetching.value # JsNull THEN Return([data |-> fetching.value, shareId |-> shareId])
    ELSE Return(JsNull)

\* getSharedCalculation(shareId) at the time t, the server answering `response`
getSharedCalculation(shareId, calculations, t, response) ==
    IF LocalCalc(calculations, shareId) # <<>> /\ ~isExpired(LocalCalc(calculations, shareId)[1], t)
    THEN Return(LocalCalc(calculations, shareId)[1])
    ELSE FromServer(fetchFromServer(response), shareId)

----------------------------------------------------------------------------
(* The storage manager at work: calculations are saved, deleted, looked up and  *)
(* cleaned up while the clock runs                                              *)

MaxSaves == 1

Calculations == {[name |-> "survey B"]}
Expirations == {"1hr"}

\* the readings of Date.now() a behaviour passes through: the millisecond the page
\* was opened in, the next one, and the one in which a calculation saved for an hour
\* at the first has expired while one saved at the second has not
Instants == {0, 1, Milliseconds("1hr") + 1}

\* n calculations saved before, `spacing` milliseconds apart, the last one now
Backlog(n, spacing) ==
    [i \in 1..n |->
        CalculationData(JsNull, generateLocalId((i - n) * spacing, i), [name |-> "survey A"],
                        (i - n) * spacing, "24hr", FALSE)]

StorageInit ==
    /\ now = 0
    /\ store \in {<<>>, Backlog(maxLocalItems - 1, 1), Backlog(maxLocalItems, 1),
                 Backlog(maxLocalItems, 0)}
    /\ server = {}
    /\ saved = NoCall /\ fetched = NoCall
    /\ ParserIdle /\ ConverterIdle /\ AppIdle /\ EngineIdle /\ DisplayIdle

OthersUnchanged ==
    UNCHANGED <<parserVars, converterVars, wrapVars, appVars, engineVars, displayVars>>

Saves == IF saved = NoCall THEN 0 ELSE saved.count

\* saveCalculation(calculation, expiration, share) with the calculationData it built
\* and the server's answer to the POST
Save(calculationData, share, response) ==
    /\ store' = saveToLocalStorage(store, calculationData)
    /\ server' = IF share THEN Inserted(server, PostBody(calculationData, now), response, now)
                 ELSE server
    /\ saved' = [tag |-> "returned", count |-> Saves + 1, share |-> share,
                 calculationData |-> calculationData,
                 posted |-> IF share THEN saveToServer(response)
                            ELSE [success |-> FALSE, shareId |-> JsNull],
                 shareId |-> saveCalculation(calculationData, share, saveToServer(response))]
    /\ UNCHANGED <<now, fetched>>
    /\ OthersUnchanged

SaveCalculation ==
    /\ Saves < MaxSaves
    /\ \E calculation \in Calculations, expiration \in Expirations :
          \/ \E random \in {maxLocalItems + Saves + 1} :
                Save(CalculationData(JsNull, generateLocalId(now, random), calculation, now,
                                     expiration, FALSE),
                     FALSE, Response(0, NoBody))
          \/ \E shareId \in ShareIds, response \in PostResponses(server) :
                Save(CalculationData(shareId, JsNull, calculation, now, expiration, TRUE),
                     TRUE, response)

\* the IDs a caller deletes: the one of the calculation saved last, one stored nowhere
DeleteTargets ==
    {generateLocalId(0, 0)}
    \cup (IF saved = NoCall THEN {} ELSE {saved.calculationData.id})

DeleteCalculation ==
    /\ \E id \in DeleteTargets : store' = deleteCalculation(store, id)
    /\ UNCHANGED <<now, server, saved, fetched>>
    /\ OthersUnchanged

\* the interval callback
CleanupExpired ==
    /\ store' = cleanupExpired(store, now)
    /\ UNCHANGED <<now, server, saved, fetched>>
    /\ OthersUnchanged

GetSharedCalculation ==
    /\ \E shareId \in ShareIds :
          \E response \in GetResponses(server, shareId, now) :
              fetched' = [tag |-> "returned", shareId |-> shareId, response |-> response,
                          result |-> getSharedCalculation(shareId, store, now, response)]
    /\ UNCHANGED <<now, store, server, saved>>
    /\ OthersUnchanged

\* time passes
Tick ==
    /\ \E t \in Instants : t > now /\ now' = t
    /\ UNCHANGED <<store, server, saved, fetched>>
    /\ OthersUnchanged

StorageNext ==
    \/ SaveCalculation
    \/ DeleteCalculation
    \/ CleanupExpired
    \/ GetSharedCalculation
    \/ Tick

SpecStorage == StorageInit /\ [][StorageNext]_vars

----------------------------------------------------------------------------
(* Properties of the storage manager *)

InStore(calculationData, calculations) ==
    \E k \in 1..Len(calculations) : calculations[k] = calculationData

\* the entries of `before` and the one just saved that `after` no longer holds
Dropped(before, calculationData, after) ==
    {entry \in {before[k] : k \in 1..Len(before)} \cup {calculationData} :
        ~InStore(entry, after)}

\* C23: after any saveCalculation, deleteCalculation or cleanupExpired the local store
\* holds at most maxLocalItems calculations; when a save overflows the limit no entry
\* dropped has a greater timestamp than an entry kept, and the calculation just saved
\* is retained.
C23_NewestFiftyKept ==
    [][/\ Len(store') <= maxLocalItems
       /\ Saves' = Saves + 1 =>
             /\ InStore(saved'.calculationData, store')
             /\ \A entry \in Dropped(store, saved'.calculationData, store') :
                   \A k \in 1..Len(store') : entry.timestamp <= store'[k].timestamp]_vars

\* the first local entry carrying the share ID, the one calculations.find yields
HasLocal(shareId) == \E k \in 1..Len(store) : store[k].shareId = shareId
FirstLocal(shareId) ==
    store[CHOOSE k \in 1..Len(store) :
              /\ store[k].shareId = shareId
              /\ \A j \in 1..(k - 1) : store[j].shareId # shareId]
ServedLocally(shareId) == HasLocal(shareId) /\ now <= FirstLocal(shareId).expiration

\* C24: getSharedCalculation(shareId) never throws; it returns the local entry while
\* that has not expired; for an expired or absent local entry it returns the server's
\* data when the fetch succeeds and null on a 404, a 410 or any network or HTTP error.
C24_LocalUnlessExpiredThenServer ==
    [][fetched' # fetched =>
          /\ fetched'.result.tag = "return"
          /\ IF ServedLocally(fetched'.shareId)
             THEN fetched'.result.value = FirstLocal(fetched'.shareId)
             ELSE IF fetched'.response.status = 200
                  THEN fetched'.result.value = [data |-> fetched'.response.body.data,
                                                shareId |-> fetched'.shareId]
             ELSE fetched'.result.value = JsNull]_vars

\* an expired entry is still in local storage, the server answers 410 and the call
\* has returned null
C24_Witness ==
    /\ fetched # NoCall /\ fetched.response.status = 410 /\ fetched.result = Return(JsNull)
    /\ HasLocal(fetched.shareId) /\ now > FirstLocal(fetched.shareId).expiration

\* saveCalculation was called with share = true and the POST succeeded
SharedOnServer == saved # NoCall /\ saved.share /\ saved.posted.success

\* C25: when saveCalculation is called with share = true and the POST succeeds, the
\* share ID it returns is the ID the server stored the calculation under, so that a
\* client without the local entry gets the calculation for that ID from the server.
C25_ReturnedIdIsServerId ==
    SharedOnServer =>
        /\ saved.shareId = saved.posted.shareId
        /\ now <= saved.calculationData.expiration =>
              getSharedCalculation(saved.shareId, <<>>, now,
                                   Answer(server, saved.shareId, now))
                  = Return([data |-> saved.calculationData.data, shareId |-> saved.shareId])

============================================================================
